---- MODULE Spec2Model ----
(***************************************************************************)
(* Server side of the proof-of-work faucet: the block engine               *)
(* (BlockProcessor), the /submit-proof and /withdraw-request handlers and  *)
(* the storage they share.                                                 *)
(*                                                                         *)
(* Execution model.  The server is one Node.js process.  A request handler *)
(* is a synchronous function over a synchronous storage binding, so it is  *)
(* one step.  processBlock is an async function: the timer callback runs   *)
(* it up to `await this.finalizeBlock(...)` (finalizeBlock itself has no   *)
(* await, so it runs to its end inside that step); the rest of             *)
(* processBlock is a promise continuation (a microtask).  The event loop   *)
(* empties the microtask queue before it dispatches the next timer or I/O  *)
(* callback, which is what MacrotaskMayRun states.                         *)
(*                                                                         *)
(* A string the program holds is a string here; Chars gives its characters *)
(* where the code looks at them.  Amounts are JavaScript numbers; a number *)
(* v is represented by the integer v * Scale, so that a request can carry  *)
(* a number that is not an integer.                                        *)
(***************************************************************************)
EXTENDS Integers, Sequences, FiniteSets, TLC

(***************************************************************************)
(* Bounds of the model.                                                    *)
(***************************************************************************)
MaxBlock == 2
MaxShares == 2
MaxPayouts == 1
MaxFailures == 1
MaxElapsedSteps == 2

(***************************************************************************)
(* Characters and strings.                                                 *)
(***************************************************************************)
HexLower == <<"0","1","2","3","4","5","6","7","8","9","a","b","c","d","e","f">>
HexUpper == <<"0","1","2","3","4","5","6","7","8","9","A","B","C","D","E","F">>

Range(s) == {s[i] : i \in 1..Len(s)}

HexChars == Range(HexLower) \cup Range(HexUpper)
IsHexChar(c) == c \in HexChars

\* Number.parseInt(char, 16) for a hexadecimal character.
HexValues == [c \in HexChars |->
                 IF c \in Range(HexLower)
                 THEN (CHOOSE i \in 1..16 : HexLower[i] = c) - 1
                 ELSE (CHOOSE i \in 1..16 : HexUpper[i] = c) - 1]
HexValue(c) == HexValues[c]

\* String.prototype.toLowerCase, character by character.
LowerChars == [c \in HexChars \cup {"x"} |->
                  IF c \in Range(HexUpper) THEN HexLower[HexValue(c) + 1] ELSE c]
LowerChar(c) == LowerChars[c]
toLowerCase(s) == [i \in 1..Len(s) |-> LowerChar(s[i])]

\* The decimal digits of a non-negative integer (template-literal formatting).
RECURSIVE Decimal(_)
Decimal(n) == IF n < 10 THEN <<HexLower[n + 1]>>
              ELSE Decimal(n \div 10) \o <<HexLower[(n % 10) + 1]>>

(***************************************************************************)
(* crypto-utils                                                            *)
(***************************************************************************)
AddressHexLen == 40

Repeat(c, n) == [i \in 1..n |-> c]

\* The strings of the model, and the characters of each.
AddrLowerA == "0xaaaaaaaaaaaaaaaaaaaaaaaaaaaaaaaaaaaaaaaa"
AddrUpperA == "0xAAAAAAAAAAAAAAAAAAAAAAAAAAAAAAAAAAAAAAAA"
AddrLowerB == "0xbbbbbbbbbbbbbbbbbbbbbbbbbbbbbbbbbbbbbbbb"
AddrShort  == "0xa"
Missing    == ""

\* A nonce of 257 characters, one more than a short string may have.
LongNonce ==
    "99999999999999999999999999999999999999999999999999999999999999999999999999999999999999999999999999999999999999999999999999999999999999999999999999999999999999999999999999999999999999999999999999999999999999999999999999999999999999999999999999999999999999999"

StringChars ==
    (AddrLowerA :> (<<"0", "x">> \o Repeat("a", 40)))
    @@ (AddrUpperA :> (<<"0", "x">> \o Repeat("A", 40)))
    @@ (AddrLowerB :> (<<"0", "x">> \o Repeat("b", 40)))
    @@ (AddrShort :> <<"0", "x", "a">>)
    @@ (Missing :> <<>>)
    @@ (LongNonce :> Repeat("9", 257))
    @@ ("1" :> <<"1">>) @@ ("2" :> <<"2">>) @@ ("3" :> <<"3">>)
    @@ ("a1" :> <<"a", "1">>) @@ ("52" :> <<"5", "2">>)

Chars(s) == StringChars[s]

\* /^0x[a-fA-F0-9]{40}$/
isValidAddress(address) ==
    LET c == Chars(address)
    IN  /\ Len(c) = 2 + AddressHexLen
        /\ c[1] = "0"
        /\ c[2] = "x"
        /\ \A i \in 3..Len(c) : IsHexChar(c[i])

\* crypto.createHash("sha256").update(input).digest("hex"), abstracted to a
\* deterministic digest of two hexadecimal characters that depends on every
\* character of the input and on its position.
CharCodes == [c \in HexChars \cup {"x"} |->
                 IF c = "x" THEN 40
                 ELSE HexValue(c) + (IF c \in Range(HexLower) THEN 1 ELSE 17)]

Scramble(t) == ((t * t) \div 8 + t * 13) % 256

RECURSIVE Mix(_, _, _)
Mix(input, lo, hi) ==
    IF lo > hi THEN 5
    ELSE IF lo = hi THEN (CharCodes[input[lo]] * 7 + lo * 29) % 256
    ELSE Scramble(Mix(input, lo, (lo + hi) \div 2) * 3
                  + Mix(input, (lo + hi) \div 2 + 1, hi) * 5 + 1)

Digest(h) == <<HexLower[(h \div 16) + 1], HexLower[(h % 16) + 1]>>

sha256hex(input) == Digest(Mix(input, 1, Len(input)))

\* countLeadingZeroBits: whole zero digits count 4, the first non-zero digit
\* contributes its own leading zero bits and ends the scan.
RECURSIVE CountFrom(_, _, _)
CountFrom(hexString, i, count) ==
    IF i > Len(hexString) THEN count
    ELSE LET value == HexValue(hexString[i])
         IN  IF value = 0 THEN CountFrom(hexString, i + 1, count + 4)
             ELSE count + (IF value < 8 THEN 1 ELSE 0)
                        + (IF value < 4 THEN 1 ELSE 0)
                        + (IF value < 2 THEN 1 ELSE 0)

countLeadingZeroBits(hexString) == CountFrom(hexString, 1, 0)

PoWHash(address, blockNumber, seedHex, nonce) ==
    LET input == toLowerCase(Chars(address)) \o Decimal(blockNumber)
                     \o Chars(seedHex) \o Chars(nonce)
        hash  == sha256hex(input)
    IN  [hash |-> hash, leadingZeroBits |-> countLeadingZeroBits(hash)]

(***************************************************************************)
(* JavaScript numbers.  Number(v) is represented by v * Scale; NaN is its  *)
(* own value.  Share counts, block numbers and rewards are integers and    *)
(* are kept as plain integers; ToNumber embeds them.                       *)
(***************************************************************************)
Scale == 2
NaN == 0 - 1
Undefined == 0 - 2

ToNumber(i) == IF i = NaN THEN NaN ELSE i * Scale
IsInteger(v) == v # NaN /\ v % Scale = 0

\* undefined * 1e6 is NaN; a number times 1e6 is a number.
TimesMicro(tokens) == IF tokens = Undefined THEN NaN ELSE tokens * 1000000

\* +, <, Math.floor(x / d), Math.ceil(x / d) and x % d on integers or NaN.
JsAdd(x, y) == IF x = NaN \/ y = NaN THEN NaN ELSE x + y
JsLess(x, y) == x # NaN /\ y # NaN /\ x < y
JsFloorDiv(x, d) == IF x = NaN THEN NaN ELSE x \div d
JsCeilDiv(x, d) == IF x = NaN THEN NaN ELSE 0 - ((0 - x) \div d)
JsMod(x, d) == IF x = NaN THEN NaN ELSE x % d

(***************************************************************************)
(* Double-precision arithmetic, for (shareCount / totalAdjustedShares) *   *)
(* poolAReward.  A double is sig * 2^exp with sig an integer of at most 53 *)
(* bits; an integer too large for one machine word is the sequence of its  *)
(* digits in base LimbBase, least significant first.  Every operation      *)
(* rounds its exact result to the nearest double, ties to even.            *)
(***************************************************************************)
LimbBits == 13
LimbBase == 2 ^ LimbBits
SignificandBits == 53

\* F applied to the value of an expression, which is computed once.
With(value, F(_)) == CHOOSE result \in {F(v) : v \in {value}} : TRUE

BigTrim(x) ==
    SubSeq(x, 1, Cardinality({i \in 1..Len(x) : \E j \in i..Len(x) : x[j] # 0}))

RECURSIVE BigFromInt(_)
BigFromInt(n) ==
    IF n = 0 THEN <<>> ELSE <<n % LimbBase>> \o BigFromInt(n \div LimbBase)

RECURSIVE BigToInt(_)
BigToInt(x) ==
    IF x = <<>> THEN 0 ELSE Head(x) + LimbBase * BigToInt(Tail(x))

RECURSIVE BigAdd(_, _, _)
BigAdd(x, y, carry) ==
    IF x = <<>> /\ y = <<>> THEN (IF carry = 0 THEN <<>> ELSE <<carry>>)
    ELSE With((IF x = <<>> THEN 0 ELSE Head(x))
              + (IF y = <<>> THEN 0 ELSE Head(y)) + carry,
              LAMBDA sum :
                  <<sum % LimbBase>>
                  \o BigAdd(IF x = <<>> THEN <<>> ELSE Tail(x),
                            IF y = <<>> THEN <<>> ELSE Tail(y), sum \div LimbBase))

RECURSIVE BigTimesLimb(_, _, _)
BigTimesLimb(x, limb, carry) ==
    IF x = <<>> THEN (IF carry = 0 THEN <<>> ELSE <<carry>>)
    ELSE With(Head(x) * limb + carry,
              LAMBDA product :
                  <<product % LimbBase>>
                  \o BigTimesLimb(Tail(x), limb, product \div LimbBase))

RECURSIVE BigTimes(_, _)
BigTimes(x, y) ==
    IF y = <<>> THEN <<>>
    ELSE With(BigTimesLimb(x, Head(y), 0),
              LAMBDA low :
                  With(<<0>> \o BigTimes(x, Tail(y)),
                       LAMBDA high : With(BigAdd(low, high, 0), LAMBDA sum : BigTrim(sum))))

\* Quotient and remainder of x by a divisor below 2^18, from the top digit down.
RECURSIVE BigDivide(_, _)
BigDivide(x, divisor) ==
    IF x = <<>> THEN [quotient |-> <<>>, remainder |-> 0]
    ELSE With(BigDivide(Tail(x), divisor),
              LAMBDA upper :
                  With(upper.remainder * LimbBase + Head(x),
                       LAMBDA dividend :
                           [quotient |-> <<dividend \div divisor>> \o upper.quotient,
                            remainder |-> dividend % divisor]))

RECURSIVE BitLengthOf(_)
BitLengthOf(n) == IF n = 0 THEN 0 ELSE 1 + BitLengthOf(n \div 2)

BigBitLength(x) ==
    IF x = <<>> THEN 0 ELSE LimbBits * (Len(x) - 1) + BitLengthOf(x[Len(x)])

\* floor(x / 2^k)
BigShiftRight(x, k) ==
    IF k \div LimbBits >= Len(x) THEN <<>>
    ELSE With(BigDivide(SubSeq(x, (k \div LimbBits) + 1, Len(x)), 2 ^ (k % LimbBits)),
              LAMBDA shifted : BigTrim(shifted.quotient))

\* x mod 2^k # 0
BigLowBitsSet(x, k) ==
    \/ \E i \in 1..Len(x) : i <= k \div LimbBits /\ x[i] # 0
    \/ /\ k \div LimbBits < Len(x)
       /\ x[(k \div LimbBits) + 1] % (2 ^ (k % LimbBits)) # 0

BigIsOdd(x) == x # <<>> /\ x[1] % 2 = 1

\* The double nearest to (x + f) * 2^exp, where 0 <= f < 1 and f > 0 iff inexact.
RoundToDouble(x, inexact, exp) ==
    IF BigBitLength(x) <= SignificandBits THEN [sig |-> x, exp |-> exp]
    ELSE With(BigBitLength(x) - SignificandBits,
              LAMBDA k :
                  With(BigShiftRight(x, k),
                       LAMBDA kept :
                           [sig |-> IF /\ BigIsOdd(BigShiftRight(x, k - 1))
                                       /\ (inexact \/ BigLowBitsSet(x, k - 1) \/ BigIsOdd(kept))
                                    THEN BigTrim(BigAdd(kept, <<1>>, 0)) ELSE kept,
                            exp |-> exp + k]))

\* a / b for integers 0 < a <= b < 2^17: the quotient of a * 2^(6 * LimbBits)
\* by b has more than SignificandBits bits.
JsDivide(a, b) ==
    With(BigDivide(<<0, 0, 0, 0, 0, 0>> \o BigFromInt(a), b),
         LAMBDA q :
             With(BigTrim(q.quotient),
                  LAMBDA quotient :
                      RoundToDouble(quotient, q.remainder # 0, 0 - 6 * LimbBits)))

\* x * n for a double x and a non-negative integer n.
JsTimes(x, n) ==
    With(BigFromInt(n),
         LAMBDA limbs :
             With(BigTimes(x.sig, limbs),
                  LAMBDA product : RoundToDouble(product, FALSE, x.exp)))

\* Math.floor(x) for a double 0 <= x < 2^31.
JsFloor(x) ==
    IF x.exp >= 0 THEN BigToInt(x.sig) * (2 ^ x.exp)
    ELSE BigToInt(BigShiftRight(x.sig, 0 - x.exp))

\* Math.floor((shareCount / totalAdjustedShares) * poolAReward)
PoolAShare(shareCount, totalAdjustedShares, poolAReward) ==
    With(<<shareCount, totalAdjustedShares, poolAReward>>,
         LAMBDA operands :
             With(JsDivide(operands[1], operands[2]),
                  LAMBDA quotient :
                      With(JsTimes(quotient, operands[3]), LAMBDA product : JsFloor(product))))

(***************************************************************************)
(* Configuration.  BLOCK_TIME_MS, DIFFICULTY_BITS, MAX_SHARES_PB and       *)
(* WITHDRAW_FEE_TOKENS are read from the environment; the values below are *)
(* one environment.  POOL_C_REWARD_TOKENS is a key of the config object    *)
(* handed to BlockProcessor: absent from the object the server builds      *)
(* (Undefined), present in PoolCConfigs otherwise.                         *)
(***************************************************************************)
BLOCK_TIME_MS == 400
DIFFICULTY_BITS == 1
MAX_SHARES_PB == 2
WITHDRAW_FEE_TOKENS == 30
POOL_A_REWARD_TOKENS == 50
POOL_B_REWARD_TOKENS == 50
PoolCConfigs == {Undefined, 9}

WITHDRAW_FEE_MICRO == ToNumber(TimesMicro(WITHDRAW_FEE_TOKENS))

(***************************************************************************)
(* Request inputs.                                                         *)
(***************************************************************************)
ValidAddresses == {AddrLowerA, AddrUpperA, AddrLowerB}
NonceInputs == {"1", "2", "3", Missing}

\* The bodies {address, nonce} of the /submit-proof requests.
SubmitInputs ==
    ({AddrLowerA} \X NonceInputs)
    \cup ({AddrLowerB} \X {"1", "2"})
    \cup ({AddrUpperA, AddrShort, Missing} \X {"1"})

\* The seeds generateRandomHex can return, and the one the setup script stored.
Seeds == {"a1", "52"}
BootSeeds == {"52"}

\* computePoWHash, evaluated once for every input the model can present to it.
PoWTable == [address \in ValidAddresses, blockNumber \in 1..(MaxBlock + 1),
             seedHex \in Seeds, nonce \in (NonceInputs \ {Missing}) \cup {LongNonce} |->
                PoWHash(address, blockNumber, seedHex, nonce)]

computePoWHash(address, blockNumber, seedHex, nonce) ==
    PoWTable[address, blockNumber, seedHex, nonce]

\* JSON values of amountMicro that are not finite numbers: 1e999 parses to
\* Infinity (here a number above every balance and every amount), and
\* "40000000" is a string.  NaN stands for a value the handler's `!amountMicro`
\* sees as NaN, Undefined for a body without the field.
Infinity == 2000000000
AmountString == 0 - 3

\* typeof v === "number"
TypeofNumber(v) == v \notin {Undefined, AmountString}

\* !v
Falsy(v) == v \in {0, NaN, Undefined}

\* amountMicro values of a withdraw request: 0, the fee itself, an amount above
\* the fee, the same amount plus one half, a negative amount, and the values
\* that are not finite numbers.
AmountInputs == {0, WITHDRAW_FEE_MICRO, ToNumber(40000000), ToNumber(40000000) + 1,
                 ToNumber(0 - 40000000), NaN, Infinity, Undefined, AmountString}

\* The bodies {address, amountMicro} of the /withdraw-request requests.
WithdrawInputs ==
    (ValidAddresses \X {ToNumber(40000000), ToNumber(40000000) + 1})
    \cup ({AddrLowerA} \X AmountInputs)
    \cup ({AddrShort, Missing} \X {ToNumber(40000000)})

VARIABLES
    config,               \* config.POOL_C_REWARD_TOKENS
    currentBlockNumber, currentSeedHex, isProcessing,
    elapsed,              \* Date.now() - blockStartTime, in ms
    blockTimer,           \* ms until the pending timer is due; Null when none
    engine,               \* "constructed", "started" or "stopped"
    pc, blockToProcess, finalizeRaised,
    meta, blocks, processedAt, shares, balances, payouts,
    failures,             \* storage faults injected so far
    shareLog, closeLog,   \* history: what the engine held at each insert/close
    debitLog,             \* history: the withdraw requests that debited a balance
    rewardCase,           \* the rows and random value given to the reward computation
    rewardResult,         \* what the reward computation made of rewardCase
    manager,              \* MiningManager: isRunning, currentHashRate, currentChallenge, workers
    pending,              \* the startMining calls awaiting createWorkers
    worker,               \* per Worker: the globals of mining-worker.js and its miningLoop calls
    toWorker, toManager,  \* the messages posted and not yet dispatched, per Worker
    stopCalled,           \* history: stopMining() was the last of start/updateHashRate/stop
    apiCalls,             \* the number of MiningManager methods called so far
    sizing                \* a total hash rate and the sizing startMining derives from it

vars == <<config, currentBlockNumber, currentSeedHex, isProcessing, elapsed,
          blockTimer, engine, pc, blockToProcess, finalizeRaised, meta, blocks,
          processedAt, shares, balances, payouts, failures, shareLog, closeLog,
          debitLog, rewardCase, rewardResult, manager, pending, worker, toWorker,
          toManager, stopCalled, apiCalls, sizing>>

minerVars == <<manager, pending, worker, toWorker, toManager, stopCalled,
               apiCalls, sizing>>

Null == 0 - 1
TimeStep == BLOCK_TIME_MS

(***************************************************************************)
(* Storage (DatabaseManager over one SQLite file; both DatabaseManager     *)
(* objects of the process open the same file).  Every call either performs *)
(* its statement or raises; a raised call leaves the tables as they were.  *)
(***************************************************************************)
\* UNIQUE(block_number, address, nonce) of table shares.
UniqueViolationNone(rows, blockNumber, address, nonce) == FALSE

UniqueViolation(rows, blockNumber, address, nonce) ==
    \E i \in 1..Len(rows) :
        /\ rows[i].block_number = blockNumber
        /\ rows[i].address = address
        /\ rows[i].nonce = nonce

\* insert_share: the rows after the call, and whether a row was inserted.
insertShare(rows, blockNumber, address, nonce, hash) ==
    IF UniqueViolation(rows, blockNumber, address, nonce)
    THEN [rows |-> rows, inserted |-> FALSE]
    ELSE [rows |-> Append(rows, [block_number |-> blockNumber, address |-> address,
                                 nonce |-> nonce, hash_hex |-> hash]),
          inserted |-> TRUE]

getSharesForBlock(rows, blockNumber) ==
    SelectSeq(rows, LAMBDA r : r.block_number = blockNumber)

getShareCountForAddress(rows, blockNumber, address) ==
    Len(SelectSeq(rows, LAMBDA r : r.block_number = blockNumber /\ r.address = address))

getBalance(bal, address) == bal[address]

\* credit_balance: insert-or-add.
updateBalance(bal, address, deltaMicro) ==
    [bal EXCEPT ![address] = @ + deltaMicro]

\* debit_balance: false, and no change, if the balance would go negative.
deductBalance(bal, address, amountMicro) ==
    IF bal[address] >= amountMicro
    THEN [bal |-> [bal EXCEPT ![address] = @ - amountMicro], success |-> TRUE]
    ELSE [bal |-> bal, success |-> FALSE]

\* status TEXT NOT NULL DEFAULT 'pending' of table payouts.
PayoutInitialStatusQueued == "queued"

PayoutInitialStatus == "pending"

\* create_payout: a row with the default status; its id is its position.
createPayout(rows, address, amountMicro, feeMicro) ==
    Append(rows, [address |-> address, amount_micro |-> amountMicro,
                  fee_micro |-> feeMicro, status |-> PayoutInitialStatus,
                  tx_hash |-> Null])

\* balance_micro INTEGER NOT NULL: a NaN parameter is bound as NULL and the
\* statement raises.
CreditRaises(deltaMicro) == deltaMicro = NaN

(***************************************************************************)
(* selectWeightedRandom, with the value crypto.randomInt returned.         *)
(***************************************************************************)
RECURSIVE SumSeq(_)
SumSeq(q) == IF q = <<>> THEN 0 ELSE Head(q) + SumSeq(Tail(q))

\* if (randomValue < cumulativeWeight) return i
RECURSIVE ScanWeightsInclusive(_, _, _, _)
ScanWeightsInclusive(weights, randomValue, i, cumulativeWeight) ==
    IF i > Len(weights) THEN Len(weights) - 1
    ELSE IF randomValue <= cumulativeWeight + weights[i] THEN i - 1
    ELSE ScanWeightsInclusive(weights, randomValue, i + 1, cumulativeWeight + weights[i])

RECURSIVE ScanWeights(_, _, _, _)
ScanWeights(weights, randomValue, i, cumulativeWeight) ==
    IF i > Len(weights) THEN Len(weights) - 1
    ELSE IF randomValue < cumulativeWeight + weights[i] THEN i - 1
    ELSE ScanWeights(weights, randomValue, i + 1, cumulativeWeight + weights[i])

selectWeightedRandom(weights, randomValue) ==
    IF SumSeq(weights) = 0 THEN 0 - 1
    ELSE ScanWeights(weights, randomValue, 1, 0)

(***************************************************************************)
(* finalizeBlock: the reward computation, from the rows of the block in    *)
(* ledger order and the lottery's random value.                            *)
(***************************************************************************)
\* The keys of sharesByAddress, in Map insertion order.
FirstSeen(rows) ==
    LET firsts == {i \in 1..Len(rows) :
                      \A j \in 1..(i - 1) : rows[j].address # rows[i].address}
    IN  [k \in 1..Cardinality(firsts) |->
            rows[CHOOSE i \in firsts : Cardinality({j \in firsts : j <= i}) = k].address]

SharesByAddress(rows) ==
    [a \in {rows[i].address : i \in 1..Len(rows)} |->
        Cardinality({i \in 1..Len(rows) : rows[i].address = a})]

NoWinner == ""

\* let adjusted = shareCount, without the branch for the Pool B winner.
AdjustedShareNoPenalty(shareCount, totalShares, isWinner) == shareCount

\* const penalty = Math.floor(totalShares / 2), without Math.min.
AdjustedShareHalfPenalty(shareCount, totalShares, isWinner) ==
    IF isWinner
    THEN LET adjusted == (shareCount - (totalShares \div 2)) \div 2
         IN  IF adjusted < 0 THEN 0 ELSE adjusted
    ELSE shareCount

\* The adjusted share of Pool A for one address.
AdjustedShare(shareCount, totalShares, isWinner) ==
    IF isWinner
    THEN LET totalLoserShares == totalShares - shareCount
             half == totalShares \div 2
             penalty == IF totalLoserShares < half THEN totalLoserShares ELSE half
             adjusted == (shareCount - penalty) \div 2
         IN  IF adjusted < 0 THEN 0 ELSE adjusted
    ELSE shareCount

\* Array.prototype.sort with (a, b) => a.reward - b.reward: stable, ascending.
RECURSIVE InsertSorted(_, _, _)
InsertSorted(sorted, a, reward) ==
    IF sorted = <<>> THEN <<a>>
    ELSE IF reward[a] < reward[Head(sorted)] THEN <<a>> \o sorted
    ELSE <<Head(sorted)>> \o InsertSorted(Tail(sorted), a, reward)

RECURSIVE SortByReward(_, _)
SortByReward(addrs, reward) ==
    IF addrs = <<>> THEN <<>>
    ELSE InsertSorted(SortByReward(SubSeq(addrs, 1, Len(addrs) - 1), reward),
                      addrs[Len(addrs)], reward)

\* The loop that picks m: the first i in 1..numC-1 with
\* workerRewards[i-1].reward + ceil(poolCReward / i) < workerRewards[i].reward.
RECURSIVE PickM(_, _, _, _)
PickM(workerRewards, reward, poolCReward, i) ==
    IF i >= Len(workerRewards) THEN Len(workerRewards)
    ELSE IF JsLess(JsAdd(reward[workerRewards[i]], JsCeilDiv(poolCReward, i)),
                   reward[workerRewards[i + 1]])
         THEN i
         ELSE PickM(workerRewards, reward, poolCReward, i + 1)

\* What the i-th (from 0) of the m lowest receives from Pool C.
PoolCExtra(poolCReward, m, i) ==
    LET rewardPerUser == JsFloorDiv(poolCReward, m)
        remainder == JsMod(poolCReward, m)
    IN  IF remainder # NaN /\ i < remainder THEN rewardPerUser + 1 ELSE rewardPerUser

Position(q, a) == CHOOSE i \in 1..Len(q) : q[i] = a

\* Pool C over the addresses other than the winner, given each one's running
\* reward after Pools B and A: the sorted workers, m, and what each receives.
PoolC(poolCAddresses, running, poolCReward) ==
    LET numC == Len(poolCAddresses)
        workerRewards == IF numC > 0 THEN SortByReward(poolCAddresses, running) ELSE <<>>
        m == IF numC > 0 THEN PickM(workerRewards, running, poolCReward, 1) ELSE 0
    IN  [numC |-> numC, workerRewards |-> workerRewards, m |-> m,
         extra |-> [a \in Range(poolCAddresses) |->
                       IF Position(workerRewards, a) <= m
                       THEN PoolCExtra(poolCReward, m, Position(workerRewards, a) - 1)
                       ELSE 0]]

ComputeRewards(rows, randomValue, poolCTokens) ==
    LET sharesByAddress == SharesByAddress(rows)
        addresses == FirstSeen(rows)
        poolBReward == TimesMicro(POOL_B_REWARD_TOKENS)
        weights == [i \in 1..Len(addresses) |-> sharesByAddress[addresses[i]]]
        winnerIndex == selectWeightedRandom(weights, randomValue)
        poolBWinner == IF winnerIndex >= 0 THEN addresses[winnerIndex + 1] ELSE NoWinner
        fromB == [a \in DOMAIN sharesByAddress |-> IF a = poolBWinner THEN poolBReward ELSE 0]
        poolAReward == TimesMicro(POOL_A_REWARD_TOKENS)
        totalShares == SumSeq(weights)
        adjusted == [a \in DOMAIN sharesByAddress |->
                        AdjustedShare(sharesByAddress[a], totalShares, a = poolBWinner)]
        totalAdjustedShares == SumSeq([i \in 1..Len(addresses) |-> adjusted[addresses[i]]])
        fromA == [a \in DOMAIN sharesByAddress |->
                     IF totalAdjustedShares > 0 /\ adjusted[a] > 0
                     THEN PoolAShare(adjusted[a], totalAdjustedShares, poolAReward)
                     ELSE 0]
        afterAB == [a \in DOMAIN sharesByAddress |-> fromB[a] + fromA[a]]
        poolCReward == TimesMicro(poolCTokens)
        poolCAddresses == SelectSeq(addresses, LAMBDA a : a # poolBWinner)
        poolC == PoolC(poolCAddresses, afterAB, poolCReward)
        fromC == [a \in DOMAIN sharesByAddress |->
                     IF a \in DOMAIN poolC.extra THEN poolC.extra[a] ELSE 0]
    IN  [sharesByAddress |-> sharesByAddress,
         addresses |-> addresses,
         winnerIndex |-> winnerIndex,
         poolBWinner |-> poolBWinner,
         adjusted |-> adjusted,
         totalAdjustedShares |-> totalAdjustedShares,
         fromA |-> fromA, fromB |-> fromB, fromC |-> fromC,
         workerRewards |-> poolC.workerRewards,
         numC |-> poolC.numC, m |-> poolC.m,
         rewards |-> [a \in DOMAIN sharesByAddress |-> JsAdd(afterAB[a], fromC[a])]]

NoCalc == [sharesByAddress |-> <<>>, addresses |-> <<>>, winnerIndex |-> 0 - 1,
           poolBWinner |-> NoWinner, adjusted |-> <<>>,
           totalAdjustedShares |-> 0, fromA |-> <<>>, fromB |-> <<>>, fromC |-> <<>>,
           workerRewards |-> <<>>, numC |-> 0, m |-> 0, rewards |-> <<>>]

NoPoolC == [numC |-> 0, workerRewards |-> <<>>, m |-> 0, extra |-> <<>>]

\* The reward computation has been given nothing and has made nothing.
NoRewardCase == [kind |-> "none", weights |-> <<>>, randomValue |-> 0, running |-> <<>>]
NoRewardResult == [done |-> FALSE, raised |-> FALSE, calc |-> NoCalc,
                   winnerIndex |-> 0 - 1, poolC |-> NoPoolC]

(***************************************************************************)
(* The state after `new DatabaseManager()` and `new BlockProcessor(config)`*)
(* on a database the setup script has just created: meta holds block 1 and *)
(* a random seed, every table is empty.                                    *)
(***************************************************************************)
Boot ==
    /\ config \in [POOL_C_REWARD_TOKENS : PoolCConfigs]
    /\ \E seed \in BootSeeds :
          /\ meta = [currentBlockNumber |-> 1, currentSeedHex |-> seed]
          /\ currentSeedHex = seed
    /\ currentBlockNumber = 1
    /\ elapsed = 0
    /\ blockTimer = Null
    /\ isProcessing = FALSE
    /\ engine = "constructed"
    /\ pc = "idle"
    /\ blockToProcess = Null
    /\ finalizeRaised = FALSE
    /\ blocks = {}
    /\ processedAt = {}
    /\ shares = <<>>
    /\ balances = [a \in ValidAddresses |-> 0]
    /\ payouts = <<>>
    /\ failures = 0
    /\ shareLog = <<>>
    /\ closeLog = <<>>
    /\ debitLog = <<>>

(***************************************************************************)
(* The browser miner: one MiningManager (lib/mining-manager.js) and the    *)
(* Workers it creates (public/mining-worker.js).  A rate is the quotient   *)
(* num / den; null is NoChallenge.  The statistics counters are left out.  *)
(***************************************************************************)
MAX_PER_WORKER_RATE == 5
ABSOLUTE_MAX_WORKERS == 256

\* The Workers the manager can create in one run, the methods it is called
\* with, and the messages one Worker can have posted and not yet dispatched.
MaxWorkers == 3
MaxCalls == 3
MaxQueue == 1

Max(a, b) == IF a > b THEN a ELSE b
Min(a, b) == IF a < b THEN a ELSE b

NoChallenge == [address |-> "", blockNumber |-> 0, seedHex |-> "", difficultyBits |-> 0]

\* The challenges of blocks 1 and 2, as /challenge answers them to one miner.
Challenges ==
    {[address |-> AddrLowerA, blockNumber |-> 1, seedHex |-> "52",
      difficultyBits |-> DIFFICULTY_BITS],
     [address |-> AddrLowerA, blockNumber |-> 2, seedHex |-> "a1",
      difficultyBits |-> DIFFICULTY_BITS]}

\* The challenge the page starts mining with, and the one of the next block.
StartChallenges == {c \in Challenges : c.blockNumber = 1}
NextChallenges == {c \in Challenges : c.blockNumber = 2}

\* The total hash rates the page starts mining with, and those it changes to:
\* 1 and 2 H/s take one Worker, 6 H/s takes two.
StartRates == {2}
UpdateRates == {1, 6}

\* The nonces generateNonce() can return.
MinerNonces == {"1", "2"}

Rate(num, den) == [num |-> num, den |-> den]
NoRate == Rate(0, 1)

\* Math.max(1, Number(totalHashRate) || 1)
TotalRate(totalHashRate) ==
    IF totalHashRate \in {NaN, Undefined, 0} THEN 1 ELSE Max(1, totalHashRate)

\* Math.ceil(rate / this.MAX_PER_WORKER_RATE)
NeededWorkers(rate) == (rate + MAX_PER_WORKER_RATE - 1) \div MAX_PER_WORKER_RATE

\* startMining: Math.min(Math.max(1, neededWorkers), absolute)
WorkerCount(currentHashRate) ==
    Min(Max(1, NeededWorkers(currentHashRate)), ABSOLUTE_MAX_WORKERS)

\* updateHashRate: Math.max(1, Math.floor(desiredWorkers))
DesiredCount(newTotal) == Max(1, NeededWorkers(newTotal))

\* Math.max(1, rate / workerCount)
PerWorkerRate(rate, workerCount) ==
    IF rate < workerCount THEN Rate(1, 1) ELSE Rate(rate, workerCount)

\* The worker's Math.max(1, Math.floor(hashRate))
AttemptsThisLoop(hashRate) == Max(1, hashRate.num \div hashRate.den)

\* Messages of the manager to a Worker.
ToWorkerMessage(type, challenge, hashRate) ==
    [type |-> type, challenge |-> challenge, hashRate |-> hashRate]

\* Messages of a Worker that make the manager act ("started", "stopped",
\* "rateUpdated", "challengeUpdated" and "stats" are only logged or counted).
\* minedAddress and minedBlockNumber are history: the inputs of the hash.
NoShare ==
    [type |-> "none", address |-> "", blockNumber |-> 0, nonce |-> "", hash |-> <<>>,
     leadingZeroBits |-> 0, message |-> "", minedAddress |-> "", minedBlockNumber |-> 0]

ReadyMessage == [NoShare EXCEPT !.type = "ready"]
ErrorMessage(message) == [NoShare EXCEPT !.type = "error", !.message = message]

NoWorker ==
    [status |-> "absent", isRunning |-> FALSE, currentChallenge |-> NoChallenge,
     hashRate |-> Rate(1, 1), loops |-> <<>>]

NoSizing == [totalHashRate |-> 0, done |-> FALSE, workerCount |-> 0, perWorkerRate |-> NoRate]

\* new MiningManager(), before any Worker exists.
MinerBoot ==
    /\ manager = [isRunning |-> FALSE, currentHashRate |-> 1,
                  currentChallenge |-> NoChallenge, workers |-> <<>>]
    /\ pending = <<>>
    /\ worker = [w \in 1..MaxWorkers |-> NoWorker]
    /\ toWorker = [w \in 1..MaxWorkers |-> <<>>]
    /\ toManager = [w \in 1..MaxWorkers |-> <<>>]
    /\ stopCalled = FALSE
    /\ apiCalls = 0

Init ==
    /\ Boot
    /\ rewardCase = NoRewardCase
    /\ rewardResult = NoRewardResult
    /\ MinerBoot
    /\ sizing = NoSizing

\* The event loop dispatches a timer, signal or request callback only when no
\* promise continuation is queued; the continuation of processBlock is queued
\* from the moment its await is reached.
MacrotaskMayRunAnytime == TRUE

MacrotaskMayRun == pc = "idle"

\* The behaviours followed end when block MaxBlock + 1 opens: every action but
\* Stop and the continuation of processBlock is guarded by
\* currentBlockNumber <= MaxBlock.

\* A storage call may raise.  MaxFailures bounds the raised calls that leave the
\* state changed.
MayFail(fault) == fault = "none" \/ failures < MaxFailures
CountFault(fault) == failures' = IF fault = "none" THEN failures ELSE failures + 1

getCurrentBlockNumberFromMeta == meta.currentBlockNumber

getCurrentBlockNumber == currentBlockNumber
getCurrentSeedHex == currentSeedHex


\* scheduleNextBlock: the delay of the timer it sets.
NextDelay(sinceBlockStart) == Max(0, BLOCK_TIME_MS - sinceBlockStart)

\* setTimeout is one-shot: once its callback has started no timer is pending
\* until scheduleNextBlock sets the next one (setInterval would re-arm it).
FiredTimerRepeats == BLOCK_TIME_MS

FiredTimer == Null

Start ==
    /\ engine = "constructed"
    /\ engine' = "started"
    /\ blockTimer' = NextDelay(elapsed)
    /\ UNCHANGED <<config, currentBlockNumber, currentSeedHex, isProcessing, elapsed,
                   pc, blockToProcess, finalizeRaised, meta, blocks, processedAt,
                   shares, balances, payouts, failures, shareLog, closeLog,
                   debitLog>>
    /\ UNCHANGED <<rewardCase, rewardResult>> /\ UNCHANGED minerVars

\* stop(): clearTimeout(this.blockTimer); this.blockTimer = null.
StoppedTimerKept == blockTimer

StoppedTimer == Null

\* SIGINT / SIGTERM: stop() and process.exit(0).
Stop ==
    /\ engine = "started"
    /\ MacrotaskMayRun
    /\ engine' = "stopped"
    /\ blockTimer' = StoppedTimer
    /\ UNCHANGED <<config, currentBlockNumber, currentSeedHex, isProcessing, elapsed,
                   pc, blockToProcess, finalizeRaised, meta, blocks, processedAt,
                   shares, balances, payouts, failures, shareLog, closeLog,
                   debitLog>>
    /\ UNCHANGED <<rewardCase, rewardResult>> /\ UNCHANGED minerVars

TimePasses ==
    /\ engine = "started"
    /\ pc = "idle"
    /\ currentBlockNumber <= MaxBlock
    /\ elapsed < MaxElapsedSteps * TimeStep
    /\ elapsed' = elapsed + TimeStep
    /\ blockTimer' = IF blockTimer = Null THEN Null ELSE Max(0, blockTimer - TimeStep)
    /\ UNCHANGED <<config, currentBlockNumber, currentSeedHex, isProcessing, engine,
                   pc, blockToProcess, finalizeRaised, meta, blocks, processedAt,
                   shares, balances, payouts, failures, shareLog, closeLog,
                   debitLog>>
    /\ UNCHANGED <<rewardCase, rewardResult>> /\ UNCHANGED minerVars

(***************************************************************************)
(* getTimeRemaining, getBlockStats and the handlers that report them:      *)
(* GET /challenge, GET /status and GET /health.  They write nothing; each  *)
(* is the response computed in the current state.                          *)
(***************************************************************************)
getTimeRemainingUnclamped == BLOCK_TIME_MS - elapsed

getTimeRemaining == Max(0, BLOCK_TIME_MS - elapsed)

getBlockStats ==
    [currentBlock |-> currentBlockNumber, seedHex |-> currentSeedHex,
     msLeft |-> getTimeRemaining, isProcessing |-> isProcessing]

ChallengeResponse ==
    [ok |-> TRUE, blockNumber |-> getBlockStats.currentBlock,
     seedHex |-> getBlockStats.seedHex, difficultyBits |-> DIFFICULTY_BITS,
     blockTimeMs |-> BLOCK_TIME_MS, msLeft |-> getBlockStats.msLeft]

StatusResponse(address) ==
    [ok |-> TRUE, blockNumber |-> getBlockStats.currentBlock,
     seedHex |-> getBlockStats.seedHex, difficultyBits |-> DIFFICULTY_BITS,
     blockTimeMs |-> BLOCK_TIME_MS,
     poolARewardMicro |-> TimesMicro(POOL_A_REWARD_TOKENS),
     poolBRewardMicro |-> TimesMicro(POOL_B_REWARD_TOKENS),
     balanceMicro |-> getBalance(balances, address), msLeft |-> getBlockStats.msLeft]

HealthResponse ==
    [ok |-> TRUE, blockNumber |-> getBlockStats.currentBlock,
     blockProcessor |-> [isProcessing |-> getBlockStats.isProcessing,
                         msLeft |-> getBlockStats.msLeft]]

(***************************************************************************)
(* POST /submit-proof                                                      *)
(***************************************************************************)
\* currentShares >= config.MAX_SHARES_PB
QuotaReachedAbove(currentShares) == currentShares > MAX_SHARES_PB

QuotaReached(currentShares) == currentShares >= MAX_SHARES_PB

\* leadingZeroBits < config.DIFFICULTY_BITS
InsufficientWorkBelowPrevious(leadingZeroBits) == leadingZeroBits < DIFFICULTY_BITS - 1

InsufficientWork(leadingZeroBits) == leadingZeroBits < DIFFICULTY_BITS

\* if (!inserted) return 409
RejectDuplicateNever(inserted) == FALSE

RejectDuplicate(inserted) == ~inserted

SubmitResp(status, error, blockNumber) ==
    [op |-> "submit", status |-> status, error |-> error, blockNumber |-> blockNumber,
     netAmount |-> Null, fee |-> Null]

\* The text of the 429 answer: the template literal
\* `Maximum shares per block exceeded (${config.MAX_SHARES_PB})` with MAX_SHARES_PB = 2.
QuotaExceededError == "Maximum shares per block exceeded (2)"

\* The handler on body {address, nonce}, run in the current state: its response,
\* the ledger after it, whether it inserted a row, and whether the named storage
\* call raised.
SubmitProofResult(address, nonce, fault) ==
    LET unchanged(resp) == [resp |-> resp, rows |-> shares, inserted |-> FALSE, raised |-> FALSE]
        transient == [resp |-> SubmitResp(503, "Server transient error, please retry", Null),
                      rows |-> shares, inserted |-> FALSE, raised |-> TRUE]
        currentBlock == getCurrentBlockNumber
        currentSeed == getCurrentSeedHex
    IN  IF address = Missing \/ nonce = Missing
        THEN unchanged(SubmitResp(400, "Missing required fields: address, nonce", Null))
        ELSE IF ~isValidAddress(address)
        THEN unchanged(SubmitResp(400, "Invalid Ethereum address format", Null))
        ELSE IF fault = "getShareCountForAddress" THEN transient
        ELSE IF QuotaReached(getShareCountForAddress(shares, currentBlock, address))
        THEN unchanged(SubmitResp(429, QuotaExceededError, Null))
        ELSE LET pow == computePoWHash(address, currentBlock, currentSeed, nonce)
             IN  IF InsufficientWork(pow.leadingZeroBits)
                 THEN unchanged(SubmitResp(400, "Insufficient proof-of-work", Null))
                 ELSE IF fault = "insertShare" THEN transient
                 ELSE LET ins == insertShare(shares, currentBlock, address, nonce, pow.hash)
                      IN  IF RejectDuplicate(ins.inserted)
                          THEN unchanged(SubmitResp(409, "Duplicate share", Null))
                          ELSE [resp |-> SubmitResp(200, "", currentBlock),
                                rows |-> ins.rows, inserted |-> ins.inserted,
                                raised |-> FALSE]

SubmitProof(address, nonce, fault) ==
    \E out \in {SubmitProofResult(address, nonce, fault)} :
        /\ engine = "started"
        /\ MacrotaskMayRun
        /\ currentBlockNumber <= MaxBlock
        /\ fault # "none" => out.raised
        /\ out.inserted => Len(shares) < MaxShares
        /\ shares' = out.rows
        /\ shareLog' = IF out.inserted
                       THEN Append(shareLog, [engineBlock |-> currentBlockNumber,
                                              engineSeed |-> currentSeedHex,
                                              respBlock |-> out.resp.blockNumber,
                                              closing |-> pc # "idle"])
                       ELSE shareLog
        /\ UNCHANGED <<failures, config, currentBlockNumber, currentSeedHex, isProcessing, elapsed,
                       blockTimer, engine, pc, blockToProcess, finalizeRaised, meta,
                       blocks, processedAt, balances, payouts, closeLog, debitLog>>
        /\ UNCHANGED <<rewardCase, rewardResult>> /\ UNCHANGED minerVars

(***************************************************************************)
(* POST /withdraw-request.  An exception a storage call raises leaves the  *)
(* handler and is answered by the error middleware (500).                  *)
(***************************************************************************)
WithdrawResp(status, error, netAmount, fee) ==
    [op |-> "withdraw", status |-> status, error |-> error, blockNumber |-> Null,
     netAmount |-> netAmount, fee |-> fee]

\* The text of the answer to an amount not above the fee: the template literal
\* `Amount must be greater than withdrawal fee (${config.WITHDRAW_FEE_TOKENS} tokens)`
\* with WITHDRAW_FEE_TOKENS = 30.
FeeError == "Amount must be greater than withdrawal fee (30 tokens)"

\* currentBalance < amountMicro
InsufficientBalanceNever(currentBalance, amountMicro) == FALSE

InsufficientBalance(currentBalance, amountMicro) == currentBalance < amountMicro

WithdrawResult(address, amountMicro, fault) ==
    LET unchanged(resp, raised) ==
            [resp |-> resp, bal |-> balances, rows |-> payouts, debited |-> FALSE,
             queued |-> FALSE, raised |-> raised]
        internal == WithdrawResp(500, "Internal server error", Null, Null)
    IN  IF address = Missing \/ ~isValidAddress(address)
        THEN unchanged(WithdrawResp(400, "Valid address required", Null, Null), FALSE)
        ELSE IF Falsy(amountMicro) \/ ~TypeofNumber(amountMicro) \/ amountMicro <= 0
        THEN unchanged(WithdrawResp(400, "Valid amountMicro required", Null, Null), FALSE)
        ELSE IF amountMicro <= WITHDRAW_FEE_MICRO
        THEN unchanged(WithdrawResp(400, FeeError, Null, Null), FALSE)
        ELSE IF fault = "getBalance" THEN unchanged(internal, TRUE)
        ELSE IF InsufficientBalance(getBalance(balances, address), amountMicro)
        THEN unchanged(WithdrawResp(400, "Insufficient balance", Null, Null), FALSE)
        ELSE IF fault = "deductBalance" THEN unchanged(internal, TRUE)
        ELSE LET ded == deductBalance(balances, address, amountMicro)
             IN  IF ~ded.success
                 THEN unchanged(WithdrawResp(500, "Failed to deduct balance", Null, Null),
                                FALSE)
                 ELSE IF fault = "createPayout"
                 THEN [resp |-> internal, bal |-> ded.bal, rows |-> payouts,
                       debited |-> TRUE, queued |-> FALSE, raised |-> TRUE]
                 ELSE [resp |-> WithdrawResp(200, "", amountMicro - WITHDRAW_FEE_MICRO,
                                             WITHDRAW_FEE_MICRO),
                       bal |-> ded.bal,
                       rows |-> createPayout(payouts, address, amountMicro,
                                             WITHDRAW_FEE_MICRO),
                       debited |-> TRUE, queued |-> TRUE, raised |-> FALSE]

\* What debitLog keeps of a request that debited a balance: the request, the
\* response, the balance before and after, and the id of the payout row it
\* created (Null when it created none).
Debit(address, amountMicro, out) ==
    [address |-> address, amountMicro |-> amountMicro, resp |-> out.resp,
     balanceBefore |-> balances[address], balanceAfter |-> out.bal[address],
     payoutId |-> IF out.queued THEN Len(out.rows) ELSE Null]

WithdrawRequest(address, amountMicro, fault) ==
    \E out \in {WithdrawResult(address, amountMicro, fault)} :
        /\ engine = "started"
        /\ MacrotaskMayRun
        /\ currentBlockNumber <= MaxBlock
        /\ fault # "none" => out.raised
        /\ out.debited => MayFail(fault)
        /\ out.queued => Len(payouts) < MaxPayouts
        /\ balances' = out.bal
        /\ payouts' = out.rows
        /\ debitLog' = IF out.debited
                       THEN Append(debitLog, Debit(address, amountMicro, out))
                       ELSE debitLog
        /\ failures' = IF out.raised /\ out.debited THEN failures + 1 ELSE failures
        /\ UNCHANGED <<config, currentBlockNumber, currentSeedHex, isProcessing, elapsed,
                       blockTimer, engine, pc, blockToProcess, finalizeRaised, meta,
                       blocks, processedAt, shares, shareLog, closeLog>>
        /\ UNCHANGED <<rewardCase, rewardResult>> /\ UNCHANGED minerVars

(***************************************************************************)
(* BlockProcessor.finalizeBlock and applyRewards                           *)
(***************************************************************************)
\* applyRewards: one transaction; it raises, and rolls back, when one of its
\* statements raises.
applyRewards(bal, rewards, fault) ==
    IF fault = "applyRewards" \/ \E a \in DOMAIN rewards : CreditRaises(rewards[a])
    THEN [bal |-> bal, raised |-> TRUE]
    ELSE [bal |-> [a \in DOMAIN bal |->
                      IF a \in DOMAIN rewards THEN bal[a] + ToNumber(rewards[a])
                      ELSE bal[a]],
          raised |-> FALSE]

RowsOfBlock(rows, blockNumber) == {i \in 1..Len(rows) : rows[i].block_number = blockNumber}

\* finalizeBlock(blockNumber): whether it raised, the tables after it, the
\* computation it made, and whether it committed credits / set the marker.
\* FinalizeOutcome is its control flow over the rows it read, the rewards it
\* computed and what applyRewards did.
FinalizeOutcome(blockNumber, fault, rows, calc, applied) ==
    LET result(raised, didRead, bal, credited, marked, c) ==
            [raised |-> raised, didRead |-> didRead, bal |-> bal, credited |-> credited,
             processedAt |-> IF marked THEN processedAt \cup {blockNumber} ELSE processedAt,
             marked |-> marked, calc |-> c]
    IN  IF fault = "getSharesForBlock"
        THEN result(TRUE, FALSE, balances, FALSE, FALSE, NoCalc)
        ELSE IF Len(rows) = 0
        THEN IF fault = "markBlockProcessed"
             THEN result(TRUE, TRUE, balances, FALSE, FALSE, NoCalc)
             ELSE result(FALSE, TRUE, balances, FALSE, TRUE, NoCalc)
        ELSE IF applied.raised
        THEN result(TRUE, TRUE, balances, FALSE, FALSE, calc)
        ELSE IF fault = "markBlockProcessed"
        THEN result(TRUE, TRUE, applied.bal, TRUE, FALSE, calc)
        ELSE result(FALSE, TRUE, applied.bal, TRUE, TRUE, calc)

FinalizeComputed(blockNumber, fault, rows, calc) ==
    FinalizeOutcome(blockNumber, fault, rows, calc,
                    applyRewards(balances, calc.rewards, fault))

FinalizeResult(blockNumber, randomValue, fault) ==
    FinalizeComputed(blockNumber, fault, getSharesForBlock(shares, blockNumber),
                     ComputeRewards(getSharesForBlock(shares, blockNumber), randomValue,
                                    config.POOL_C_REWARD_TOKENS))

\* Whether finalizeBlock, run now, reaches the storage call `fault` names.
FaultReached(blockNumber, fault, fin) ==
    \/ fault = "none"
    \/ fault = "getSharesForBlock"
    \/ fault = "markBlockProcessed" /\ fin.credited
    \/ fault = "markBlockProcessed" /\ fin.didRead
          /\ Len(getSharesForBlock(shares, blockNumber)) = 0
    \/ fault = "applyRewards" /\ Len(getSharesForBlock(shares, blockNumber)) > 0

\* History of the runs of finalizeBlock over one block: the rows the last run
\* read, how often credits were committed and the marker set, the micro-tokens
\* credited in total, the computation and rows of the last run that committed
\* credits, whether a run raised, and whether a run followed one that raised.
NoClose == [read |-> {}, credits |-> 0, marks |-> 0, creditedMicro |-> 0,
            calc |-> NoCalc, calcRead |-> {}, raised |-> FALSE, retried |-> FALSE]

RECURSIVE SumRewards(_, _)
SumRewards(rewards, addrs) ==
    IF addrs = {} THEN 0
    ELSE LET a == CHOOSE x \in addrs : TRUE
         IN  rewards[a] + SumRewards(rewards, addrs \ {a})

CloseOf(b) == IF b \in DOMAIN closeLog THEN closeLog[b] ELSE NoClose

RandomValues(blockNumber) ==
    LET n == Len(getSharesForBlock(shares, blockNumber))
    IN  IF n = 0 THEN {0} ELSE 0..(n - 1)

(***************************************************************************)
(* The timer callback: processBlock up to its await.                       *)
(***************************************************************************)
\* The close record of block b after a run `fin` of finalizeBlock over it.
Closed(b, old, fin) ==
    [read |-> IF fin.didRead THEN RowsOfBlock(shares, b) ELSE old.read,
     credits |-> old.credits + (IF fin.credited THEN 1 ELSE 0),
     marks |-> old.marks + (IF fin.marked THEN 1 ELSE 0),
     creditedMicro |-> old.creditedMicro
                       + (IF fin.credited
                          THEN SumRewards(fin.calc.rewards, DOMAIN fin.calc.rewards)
                          ELSE 0),
     calc |-> IF fin.credited THEN fin.calc ELSE old.calc,
     calcRead |-> IF fin.credited THEN RowsOfBlock(shares, b) ELSE old.calcRead,
     raised |-> old.raised \/ fin.raised,
     retried |-> old.retried \/ old.raised]

\* The callback of the pending timer, once it is due.
Tick(randomValue, fault) ==
    /\ blockTimer = 0
    /\ MacrotaskMayRun
    /\ currentBlockNumber <= MaxBlock
    /\ blockTimer' = FiredTimer
    /\ IF isProcessing
       THEN /\ fault = "none"
            /\ randomValue = 0
            /\ UNCHANGED <<isProcessing, blockToProcess, finalizeRaised, pc, balances,
                           processedAt, closeLog, failures>>
       ELSE \E fin \in {FinalizeResult(currentBlockNumber, randomValue, fault)} :
                /\ MayFail(fault)
                /\ FaultReached(currentBlockNumber, fault, fin)
                /\ randomValue \in RandomValues(currentBlockNumber)
                /\ isProcessing' = TRUE
                /\ blockToProcess' = currentBlockNumber
                /\ finalizeRaised' = fin.raised
                /\ pc' = "awaiting"
                /\ balances' = fin.bal
                /\ processedAt' = fin.processedAt
                /\ closeLog' = (currentBlockNumber :>
                                  Closed(currentBlockNumber, CloseOf(currentBlockNumber), fin))
                               @@ closeLog
                /\ CountFault(fault)
    /\ UNCHANGED <<config, currentBlockNumber, currentSeedHex, elapsed, engine, meta,
                   blocks, shares, payouts, shareLog, debitLog>>
    /\ UNCHANGED <<rewardCase, rewardResult>> /\ UNCHANGED minerVars

(***************************************************************************)
(* The continuation of processBlock after its await: the rest of the try   *)
(* block when finalizeBlock returned, the catch block when it or a later   *)
(* storage call raised, and the finally block.                             *)
(***************************************************************************)
\* this.currentBlockNumber++
NextBlockNumberSkips == currentBlockNumber + 2

NextBlockNumber == currentBlockNumber + 1

\* scheduleNextBlock() called at the end of the try block only.
ScheduledInTryOnly(sinceBlockStart) ==
    IF finalizeRaised THEN Null ELSE NextDelay(sinceBlockStart)

\* finally { this.isProcessing = false; this.scheduleNextBlock() }
ScheduledInFinally(sinceBlockStart) == NextDelay(sinceBlockStart)

ProcessBlockResume(seed, fault) ==
    /\ pc = "awaiting"
    /\ MayFail(fault)
    /\ IF finalizeRaised
       THEN /\ fault = "none"
            /\ seed = currentSeedHex
            /\ UNCHANGED <<currentBlockNumber, currentSeedHex, elapsed, meta, blocks>>
            /\ blockTimer' = ScheduledInFinally(elapsed)
       ELSE /\ currentBlockNumber' = NextBlockNumber
            /\ currentSeedHex' = seed
            /\ elapsed' = 0
            /\ meta' = IF fault = "setMetaBlock" THEN meta
                       ELSE IF fault = "setMetaSeed"
                       THEN [meta EXCEPT !.currentBlockNumber = NextBlockNumber]
                       ELSE [currentBlockNumber |-> NextBlockNumber,
                             currentSeedHex |-> seed]
            /\ blocks' = IF fault = "none"
                         THEN blocks \cup {[block_number |-> NextBlockNumber,
                                            seed_hex |-> seed]}
                         ELSE blocks
            /\ blockTimer' = ScheduledInFinally(0)
    /\ isProcessing' = FALSE
    /\ pc' = "idle"
    /\ CountFault(fault)
    /\ UNCHANGED <<config, engine, blockToProcess, finalizeRaised, processedAt, shares,
                   balances, payouts, shareLog, closeLog, debitLog>>
    /\ UNCHANGED <<rewardCase, rewardResult>> /\ UNCHANGED minerVars

SubmitFaults == {"none", "getShareCountForAddress", "insertShare"}
WithdrawFaults == {"none", "getBalance", "deductBalance", "createPayout"}
FinalizeFaults == {"none", "getSharesForBlock", "applyRewards", "markBlockProcessed"}
ResumeFaults == {"none", "setMetaBlock", "setMetaSeed", "insertBlock"}

Next ==
    \/ Start
    \/ Stop
    \/ TimePasses
    \/ \E body \in SubmitInputs, fault \in SubmitFaults :
          SubmitProof(body[1], body[2], fault)
    \/ \E body \in WithdrawInputs, fault \in WithdrawFaults :
          WithdrawRequest(body[1], body[2], fault)
    \/ \E randomValue \in 0..(MaxShares - 1), fault \in FinalizeFaults :
          Tick(randomValue, fault)
    \/ \E seed \in Seeds, fault \in ResumeFaults : ProcessBlockResume(seed, fault)

Spec == Init /\ [][Next]_vars

(***************************************************************************)
(* Properties.  A rejected request changes no variable, so what a handler  *)
(* answers is stated over SubmitProofResult / WithdrawResult evaluated in  *)
(* the state the request arrives in.                                       *)
(***************************************************************************)
\* A /submit-proof body that passes the presence and address-format checks.
WellFormed(body) ==
    body[1] # Missing /\ body[2] # Missing /\ isValidAddress(body[1])

CurrentCount(address) == getShareCountForAddress(shares, currentBlockNumber, address)

\* The leading-zero-bit count of the hash of (lowercased address, block, seed, nonce).
WorkOf(address, blockNumber, seedHex, nonce) ==
    countLeadingZeroBits(sha256hex(toLowerCase(Chars(address)) \o Decimal(blockNumber)
                                   \o Chars(seedHex) \o Chars(nonce)))

Answer(body) == SubmitProofResult(body[1], body[2], "none")

Rejects(out, status, error) ==
    /\ out.resp.status = status
    /\ out.resp.error = error
    /\ ~out.inserted
    /\ out.rows = shares

\* C1: for every accepted share, the block number in its row, the block number
\* and seed its stored hash was computed with, and the blockNumber of the 200
\* response are the engine's current block and seed at the moment of the insert.
C1_AcceptedShareBoundToEngineBlock ==
    /\ Len(shareLog) = Len(shares)
    /\ \A i \in 1..Len(shares) :
          /\ shares[i].block_number = shareLog[i].engineBlock
          /\ shareLog[i].respBlock = shareLog[i].engineBlock
          /\ shares[i].hash_hex = PoWHash(shares[i].address, shareLog[i].engineBlock,
                                          shareLog[i].engineSeed, shares[i].nonce).hash

\* A share accepted in block 2 under a seed other than the boot seed, after the
\* write of meta.currentBlockNumber failed (storage still says block 1).
C1_Witness ==
    \E i \in 1..Len(shares) :
        /\ shareLog[i].engineBlock = 2
        /\ shareLog[i].engineSeed = "52"
        /\ shares[i].block_number = 2
        /\ meta.currentBlockNumber = 1

C3_LedgerSatisfiesDifficulty ==
    /\ \A i \in 1..Len(shares) :
          WorkOf(shares[i].address, shares[i].block_number, shareLog[i].engineSeed,
                 shares[i].nonce) >= DIFFICULTY_BITS
    /\ \A body \in SubmitInputs :
          (WellFormed(body)
           /\ WorkOf(body[1], currentBlockNumber, currentSeedHex, body[2]) < DIFFICULTY_BITS)
             => IF CurrentCount(body[1]) < MAX_SHARES_PB
                THEN Rejects(Answer(body), 400, "Insufficient proof-of-work")
                ELSE Rejects(Answer(body), 429, QuotaExceededError)

\* The ledger holds a share and a submission below the difficulty is answered
\* 400 'Insufficient proof-of-work'.
C3_Witness ==
    /\ Len(shares) > 0
    /\ \E body \in SubmitInputs :
          /\ WellFormed(body)
          /\ WorkOf(body[1], currentBlockNumber, currentSeedHex, body[2]) < DIFFICULTY_BITS
          /\ Answer(body).resp.error = "Insufficient proof-of-work"

\* C3 as stated: every well-formed submission whose count is below
\* DIFFICULTY_BITS gets 400 'Insufficient proof-of-work' and inserts nothing.
C3_LowWorkAlwaysGets400 ==
    \A body \in SubmitInputs :
        (WellFormed(body)
         /\ WorkOf(body[1], currentBlockNumber, currentSeedHex, body[2]) < DIFFICULTY_BITS)
           => Rejects(Answer(body), 400, "Insufficient proof-of-work")

\* C4: the ledger holds at most one row for any (block number, address, nonce).
C4_OneRowPerTriple ==
    \A i, j \in 1..Len(shares) :
        (/\ shares[i].block_number = shares[j].block_number
         /\ shares[i].address = shares[j].address
         /\ shares[i].nonce = shares[j].nonce) => i = j

\* The same (address, nonce) is stored for two different blocks, and submitting
\* it again for the current block is refused by the ledger.
C4_Witness ==
    \E i, j \in 1..Len(shares) :
        /\ shares[i].address = shares[j].address
        /\ shares[i].nonce = shares[j].nonce
        /\ shares[i].block_number < shares[j].block_number
        /\ shares[j].block_number = currentBlockNumber
        /\ insertShare(shares, currentBlockNumber, shares[j].address, shares[j].nonce,
                       shares[j].hash_hex).inserted = FALSE

\* C5 (as amended): submitting a stored (address, nonce) again while its block
\* is current inserts nothing and leaves the share count unchanged; the answer
\* is 409 'Duplicate share' when the address is below its quota and 429 when it
\* has reached it; at close the address is attributed one share per distinct
\* nonce it submitted.
C5_DuplicateNotCounted ==
    /\ \A i \in 1..Len(shares) :
          shares[i].block_number = currentBlockNumber
             => IF CurrentCount(shares[i].address) < MAX_SHARES_PB
                THEN Rejects(Answer(<<shares[i].address, shares[i].nonce>>),
                             409, "Duplicate share")
                ELSE Rejects(Answer(<<shares[i].address, shares[i].nonce>>),
                             429, QuotaExceededError)
    /\ \A b \in DOMAIN closeLog :
          \A a \in DOMAIN closeLog[b].calc.sharesByAddress :
              closeLog[b].calc.sharesByAddress[a]
                 = Cardinality({shares[i].nonce :
                                  i \in {k \in closeLog[b].calcRead : shares[k].address = a}})

\* A stored share of the current block whose resubmission is answered 409, next
\* to a closed block that attributed exactly one share to an address.
C5_Witness ==
    /\ \E i \in 1..Len(shares) :
          /\ shares[i].block_number = currentBlockNumber
          /\ Answer(<<shares[i].address, shares[i].nonce>>).resp.status = 409
    /\ \E b \in DOMAIN closeLog :
          \E a \in DOMAIN closeLog[b].calc.sharesByAddress :
              closeLog[b].calc.sharesByAddress[a] = 1

\* C5 as stated: a second submission of a stored (address, nonce) while its
\* block is current returns 409 'Duplicate share'.
C5_DuplicateAlwaysGets409 ==
    \A i \in 1..Len(shares) :
        shares[i].block_number = currentBlockNumber
           => Rejects(Answer(<<shares[i].address, shares[i].nonce>>), 409, "Duplicate share")

\* C6: no (block, address) has more than MAX_SHARES_PB rows; a well-formed
\* submission arriving when the count is MAX_SHARES_PB gets 429 and inserts
\* nothing; finalization attributes at most MAX_SHARES_PB shares to an address.
C6_QuotaPerBlockAndAddress ==
    /\ \A i \in 1..Len(shares) :
          getShareCountForAddress(shares, shares[i].block_number, shares[i].address)
             <= MAX_SHARES_PB
    /\ \A body \in SubmitInputs :
          (WellFormed(body) /\ CurrentCount(body[1]) = MAX_SHARES_PB)
             => Rejects(Answer(body), 429, QuotaExceededError)
    /\ \A b \in DOMAIN closeLog :
          \A a \in DOMAIN closeLog[b].calc.sharesByAddress :
              closeLog[b].calc.sharesByAddress[a] <= MAX_SHARES_PB

\* An address holds MAX_SHARES_PB shares of the current block and a third,
\* distinct nonce of sufficient work is answered 429.
C6_Witness ==
    \E body \in SubmitInputs :
        /\ WellFormed(body)
        /\ CurrentCount(body[1]) = MAX_SHARES_PB
        /\ ~UniqueViolation(shares, currentBlockNumber, body[1], body[2])
        /\ WorkOf(body[1], currentBlockNumber, currentSeedHex, body[2]) >= DIFFICULTY_BITS
        /\ Answer(body).resp.status = 429

\* C7: every balance is a non-negative integer in every reachable state.
C7_BalanceNonNegativeInteger ==
    \A a \in DOMAIN balances : balances[a] >= 0 /\ IsInteger(balances[a])

\* The micro-tokens of the three pools (Pool C counts 0 when not configured).
Budget ==
    TimesMicro(POOL_A_REWARD_TOKENS) + TimesMicro(POOL_B_REWARD_TOKENS)
    + (IF config.POOL_C_REWARD_TOKENS = Undefined THEN 0
       ELSE TimesMicro(config.POOL_C_REWARD_TOKENS))

\* C8: for every block, the rewards credited for it sum to at most
\* A_micro + B_micro + C_micro, and what the crediting run left undistributed
\* is the truncation of Pool A, or Pool A or Pool C skipped.
C8_CreditedWithinBudget ==
    \A b \in DOMAIN closeLog :
        /\ closeLog[b].creditedMicro <= Budget
        /\ closeLog[b].credits > 0 =>
              LET calc == closeLog[b].calc
                  addrs == DOMAIN calc.rewards
                  paidA == SumRewards(calc.fromA, addrs)
                  paidC == SumRewards(calc.fromC, addrs)
              IN  /\ SumRewards(calc.fromB, addrs) = TimesMicro(POOL_B_REWARD_TOKENS)
                  /\ IF calc.totalAdjustedShares = 0 THEN paidA = 0
                     ELSE /\ paidA <= TimesMicro(POOL_A_REWARD_TOKENS)
                          /\ TimesMicro(POOL_A_REWARD_TOKENS) - paidA
                                < calc.totalAdjustedShares
                  /\ paidC = IF calc.numC = 0 THEN 0
                             ELSE TimesMicro(config.POOL_C_REWARD_TOKENS)

\* C9: for every block, its credits have been applied if and only if its
\* processed marker has been set (an empty block has no credits to apply).
C9_CreditsAndMarkerTogether ==
    \A b \in DOMAIN closeLog :
        /\ closeLog[b].credits > 0 => b \in processedAt
        /\ (b \in processedAt /\ RowsOfBlock(shares, b) # {}) => closeLog[b].credits > 0

\* C10: once a run of finalizeBlock(N) has raised and the tick has ended, the
\* engine is past block N; and block N is never finalized by a later tick.
C10_RaisedBlockIsLeftBehind ==
    /\ \A b \in DOMAIN closeLog :
          (closeLog[b].raised /\ pc = "idle") => currentBlockNumber > b
    /\ \A b \in DOMAIN closeLog : ~closeLog[b].retried

\* C11: at most one closure is in progress at any time.  While the engine is
\* Closing (isProcessing is true) the closure's continuation is queued and no
\* timer is pending, so no tick can start a second closure; the only step taken
\* from a Closing state is the end of that closure, which leaves what its
\* finalizeBlock read, credited and marked as they were; and a closure starts
\* only when none is in progress.
C11_OneClosureAtATime ==
    /\ [](isProcessing => (pc = "awaiting" /\ blockTimer = Null
                           /\ blockToProcess = currentBlockNumber))
    /\ [][isProcessing =>
             /\ ~isProcessing'
             /\ pc' = "idle"
             /\ blockToProcess' = blockToProcess
             /\ shares' = shares /\ balances' = balances /\ payouts' = payouts
             /\ processedAt' = processedAt /\ closeLog' = closeLog]_vars
    /\ [][closeLog' # closeLog => (~isProcessing /\ isProcessing')]_vars

\* A closure is in progress: finalizeBlock has read the rows of block 1 and
\* credited them, and its continuation has not run yet.
C11_Witness ==
    /\ isProcessing
    /\ pc = "awaiting"
    /\ CloseOf(1).credits = 1
    /\ currentBlockNumber = 1

\* C12: the engine's current block number never decreases and never returns to
\* a closed value: the step that ends a tick whose finalizeBlock returned
\* increases it by exactly 1, every other step (request handlers, stop, the
\* passing of time, a tick whose finalizeBlock raised) leaves it unchanged, and
\* between ticks every block marked processed is below it.
C12_BlockNumberIncreasesByOne ==
    /\ [][IF pc = "awaiting" /\ ~finalizeRaised
          THEN currentBlockNumber' = currentBlockNumber + 1
          ELSE currentBlockNumber' = currentBlockNumber]_vars
    /\ [](pc = "idle" => \A b \in processedAt : b < currentBlockNumber)

\* Two closures have completed, the first of them after a tick whose
\* finalizeBlock raised and left the number at 1, and the engine was stopped.
C12_Witness ==
    /\ currentBlockNumber = 3
    /\ processedAt = {1, 2}
    /\ CloseOf(1).raised
    /\ engine = "stopped"

\* C13: a withdrawal is atomic.  In every reachable state every request that
\* debited a balance has exactly one pending payout row, created for its
\* address, and every payout row belongs to exactly one request that debited.
C13_DebitIffOnePayout ==
    /\ \A i \in 1..Len(debitLog) :
          /\ debitLog[i].payoutId # Null
          /\ debitLog[i].payoutId \in 1..Len(payouts)
          /\ payouts[debitLog[i].payoutId].address = debitLog[i].address
          /\ payouts[debitLog[i].payoutId].status = "pending"
    /\ \A j \in 1..Len(payouts) :
          Cardinality({i \in 1..Len(debitLog) : debitLog[i].payoutId = j}) = 1

\* C14: for every successful withdraw request of amountMicro, the payout row
\* holds amount_micro = amountMicro - WITHDRAW_FEE_MICRO > 0 and
\* fee_micro = WITHDRAW_FEE_MICRO, the response reports the same netAmount and
\* fee, and the balance went down by exactly amountMicro.
C14_PayoutHoldsNetAmount ==
    \A i \in 1..Len(debitLog) :
        debitLog[i].resp.status = 200 =>
            LET d == debitLog[i]
                row == payouts[d.payoutId]
            IN  /\ row.amount_micro = d.amountMicro - WITHDRAW_FEE_MICRO
                /\ row.amount_micro > 0
                /\ row.fee_micro = WITHDRAW_FEE_MICRO
                /\ d.resp.netAmount = row.amount_micro
                /\ d.resp.fee = row.fee_micro
                /\ d.balanceBefore - d.balanceAfter = d.amountMicro

\* What /withdraw-request answers to a body when no storage call raises.
WithdrawAnswer(body) == WithdrawResult(body[1], body[2], "none")

\* The answer is `status` with `error`, and no balance or payout row changed.
WithdrawRejects(out, status, error) ==
    /\ out.resp.status = status
    /\ out.resp.error = error
    /\ out.bal = balances
    /\ out.rows = payouts
    /\ ~out.debited /\ ~out.queued

\* amountMicro is a number above zero (integer or not, finite or not).
PositiveNumber(v) == v \notin {NaN, Undefined, AmountString} /\ v > 0

\* C15: a withdraw request with an invalid address, an invalid amount (absent,
\* zero, negative, NaN or not a number), an amount not above the fee, or an
\* amount above the balance is answered 400 and changes no balance and no
\* payout row; in particular the request of an earlier withdrawal, repeated
\* once the balance is below its amount, gets 400 'Insufficient balance'.
C15_RejectedWithdrawChangesNothing ==
    /\ \A body \in WithdrawInputs :
          IF body[1] = Missing \/ ~isValidAddress(body[1])
          THEN WithdrawRejects(WithdrawAnswer(body), 400, "Valid address required")
          ELSE IF ~PositiveNumber(body[2])
          THEN WithdrawRejects(WithdrawAnswer(body), 400, "Valid amountMicro required")
          ELSE IF body[2] <= WITHDRAW_FEE_MICRO
          THEN WithdrawRejects(WithdrawAnswer(body), 400, FeeError)
          ELSE balances[body[1]] < body[2]
                  => WithdrawRejects(WithdrawAnswer(body), 400, "Insufficient balance")
    /\ \A i \in 1..Len(debitLog) :
          balances[debitLog[i].address] < debitLog[i].amountMicro
             => WithdrawRejects(WithdrawAnswer(<<debitLog[i].address, debitLog[i].amountMicro>>),
                                400, "Insufficient balance")

\* A withdrawal of 40000000 was queued, the balance is now below that amount,
\* and the same request is answered 400 'Insufficient balance'.
C15_Witness ==
    \E i \in 1..Len(debitLog) :
        /\ debitLog[i].resp.status = 200
        /\ debitLog[i].amountMicro = ToNumber(40000000)
        /\ balances[debitLog[i].address] < debitLog[i].amountMicro
        /\ WithdrawAnswer(<<debitLog[i].address, debitLog[i].amountMicro>>).resp.error
              = "Insufficient balance"
        /\ Len(payouts) = 1

\* amountMicro is a positive finite integer.
PositiveFiniteInteger(v) == PositiveNumber(v) /\ v # Infinity /\ IsInteger(v)

\* C16: /withdraw-request accepts amountMicro only when it is a positive finite
\* integer: a request whose amountMicro is a non-integer number, infinite, NaN,
\* non-positive or not a number is answered 400 and debits nothing whenever the
\* server can take it, and every request that debited a balance carried a
\* positive finite integer.
C16_OnlyPositiveFiniteIntegerAccepted ==
    /\ \A body \in WithdrawInputs :
          (/\ engine = "started" /\ MacrotaskMayRun
           /\ body[1] # Missing /\ isValidAddress(body[1])
           /\ ~PositiveFiniteInteger(body[2]))
             => /\ WithdrawAnswer(body).resp.status = 400
                /\ WithdrawAnswer(body).bal = balances
                /\ ~WithdrawAnswer(body).debited
    /\ \A i \in 1..Len(debitLog) : PositiveFiniteInteger(debitLog[i].amountMicro)

TimerFires == \E randomValue \in 0..(MaxShares - 1) : Tick(randomValue, "none")

ContinuationRuns == \E seed \in Seeds : ProcessBlockResume(seed, "none")

FairNext ==
    \/ Start
    \/ Stop
    \/ TimePasses
    \/ \E nonce \in {"1", "2"} : SubmitProof(AddrLowerA, nonce, "none")
    \/ WithdrawRequest(AddrLowerA, ToNumber(40000000), "none")
    \/ TimerFires
    \/ ContinuationRuns

FairSpec ==
    /\ Init
    /\ [][FairNext]_vars
    /\ WF_vars(TimePasses)
    /\ WF_vars(TimerFires)
    /\ WF_vars(ContinuationRuns)

\* Payout i is in the queue and pending / has ended as the dispatcher leaves it.
PayoutPending(i) == i <= Len(payouts) /\ payouts[i].status = "pending"

PayoutSettled(i) ==
    /\ i <= Len(payouts)
    /\ \/ payouts[i].status = "sent" /\ payouts[i].tx_hash # Null
       \/ payouts[i].status = "failed" /\ payouts[i].tx_hash = Null

ReportedMsLeft ==
    {ChallengeResponse.msLeft, HealthResponse.blockProcessor.msLeft}
    \cup {StatusResponse(a).msLeft : a \in ValidAddresses}

\* C19: msLeft as reported by /challenge, /status and /health is
\* BLOCK_TIME_MS - (now - block start) while the interval has not elapsed and 0
\* once it has, hence within 0..BLOCK_TIME_MS in every state, also while a
\* closure is in progress.
C19_MsLeftClamped ==
    \A msLeft \in ReportedMsLeft :
        /\ msLeft = IF elapsed < BLOCK_TIME_MS THEN BLOCK_TIME_MS - elapsed ELSE 0
        /\ 0 <= msLeft /\ msLeft <= BLOCK_TIME_MS

\* The tick came late: a closure is in progress two intervals after the block
\* started, and msLeft is reported as 0.
C19_Witness ==
    /\ pc = "awaiting" /\ isProcessing
    /\ elapsed = 2 * BLOCK_TIME_MS
    /\ ReportedMsLeft = {0}

\* C20: a tick that closes a block without shares changes no balance, no share
\* and no payout; the only thing it writes about the block is its processed
\* marker, which it sets unless that write raises; and the continuation of the
\* tick moves the engine to the next block, with the seed it has just drawn,
\* writing nothing more about the closed block.
C20_EmptyBlockOnlyMarked ==
    /\ [][(~isProcessing /\ isProcessing'
           /\ RowsOfBlock(shares, currentBlockNumber) = {})
             => /\ balances' = balances
                /\ payouts' = payouts
                /\ shares' = shares
                /\ processedAt' = IF finalizeRaised' THEN processedAt
                                  ELSE processedAt \cup {currentBlockNumber}]_vars
    /\ [][(isProcessing /\ RowsOfBlock(shares, blockToProcess) = {})
             => /\ currentBlockNumber' = blockToProcess + 1
                /\ currentSeedHex' \in Seeds
                /\ balances' = balances
                /\ payouts' = payouts
                /\ processedAt' = processedAt]_vars

\* Two address strings that differ at most in letter case.
SameAccount(a, b) == toLowerCase(Chars(a)) = toLowerCase(Chars(b))

IsLowerCase(a) == toLowerCase(Chars(a)) = Chars(a)

\* C21: addresses are identified case-insensitively.  Every address the
\* handlers wrote to storage is lowercase (share rows, balances, payout rows);
\* two requests whose addresses differ only in letter case are answered alike
\* in the same state (one quota, one duplicate check, one balance); and
\* finalization groups the shares of a block under one key per account.
C21_AddressesCaseInsensitive ==
    /\ \A i \in 1..Len(shares) : IsLowerCase(shares[i].address)
    /\ \A a \in DOMAIN balances : balances[a] # 0 => IsLowerCase(a)
    /\ \A i \in 1..Len(payouts) : IsLowerCase(payouts[i].address)
    /\ \A a, b \in ValidAddresses :
          SameAccount(a, b) =>
              /\ \A nonce \in NonceInputs :
                    Answer(<<a, nonce>>).resp = Answer(<<b, nonce>>).resp
              /\ \A amountMicro \in AmountInputs :
                    WithdrawAnswer(<<a, amountMicro>>).resp
                       = WithdrawAnswer(<<b, amountMicro>>).resp
              /\ StatusResponse(a) = StatusResponse(b)
    /\ \A blk \in DOMAIN closeLog :
          \A a, b \in DOMAIN closeLog[blk].calc.sharesByAddress :
              SameAccount(a, b) => a = b

(***************************************************************************)
(* The server with one client and no storage failure, where the client's   *)
(* nonces include one of 257 characters.                                   *)
(***************************************************************************)
ClientSubmitInputs ==
    ({AddrLowerA} \X {"1", "2", LongNonce, Missing})
    \cup ({AddrShort, Missing} \X {"1", LongNonce})

ClientNext ==
    \/ Start
    \/ Stop
    \/ TimePasses
    \/ \E body \in ClientSubmitInputs : SubmitProof(body[1], body[2], "none")
    \/ WithdrawRequest(AddrLowerA, ToNumber(40000000), "none")
    \/ TimerFires
    \/ ContinuationRuns

ClientSpec == Init /\ [][ClientNext]_vars

\* A non-empty string of at most 256 characters.
ValidNonceFormat(nonce) == nonce # Missing /\ Len(Chars(nonce)) <= 256

\* C22: a request the server can take, that passes the presence and address
\* checks and whose nonce is longer than 256 characters, is answered 400
\* 'Invalid nonce format' and inserts nothing; no share with such a nonce is in
\* the ledger.
C22_BadNonceRejected ==
    /\ \A body \in ClientSubmitInputs :
          (/\ engine = "started" /\ MacrotaskMayRun
           /\ WellFormed(body) /\ ~ValidNonceFormat(body[2]))
             => Rejects(Answer(body), 400, "Invalid nonce format")
    /\ \A i \in 1..Len(shares) : ValidNonceFormat(shares[i].nonce)

\* The answer of /submit-proof when the checks are applied in the order
\* presence, address format, nonce format, quota, proof-of-work, duplicate.
ExpectedAnswer(body) ==
    IF body[1] = Missing \/ body[2] = Missing
    THEN [status |-> 400, error |-> "Missing required fields: address, nonce"]
    ELSE IF ~isValidAddress(body[1])
    THEN [status |-> 400, error |-> "Invalid Ethereum address format"]
    ELSE IF ~ValidNonceFormat(body[2])
    THEN [status |-> 400, error |-> "Invalid nonce format"]
    ELSE IF CurrentCount(body[1]) >= MAX_SHARES_PB
    THEN [status |-> 429, error |-> QuotaExceededError]
    ELSE IF WorkOf(body[1], currentBlockNumber, currentSeedHex, body[2]) < DIFFICULTY_BITS
    THEN [status |-> 400, error |-> "Insufficient proof-of-work"]
    ELSE IF UniqueViolation(shares, currentBlockNumber, body[1], body[2])
    THEN [status |-> 409, error |-> "Duplicate share"]
    ELSE [status |-> 200, error |-> ""]

\* C23: every request the server can take gets the status and error of the
\* earliest check it fails, in the order presence, address format, nonce
\* format, quota, proof-of-work, duplicate; and every outcome other than 200,
\* the 503 of a raised storage call included, leaves the share ledger as it was.
C23_ChecksInOrder ==
    (engine = "started" /\ MacrotaskMayRun) =>
        \A body \in ClientSubmitInputs \cup SubmitInputs :
            /\ Answer(body).resp.status = ExpectedAnswer(body).status
            /\ Answer(body).resp.error = ExpectedAnswer(body).error
            /\ \A fault \in SubmitFaults :
                  LET out == SubmitProofResult(body[1], body[2], fault)
                  IN  out.resp.status # 200 => (out.rows = shares /\ ~out.inserted)

\* C24: once stop() has been called no timer is pending and no closure is in
\* progress, and no step changes the current block number, the seed, the
\* engine's position, the close history, the processed markers, the balances
\* or what storage holds of the engine: no tick fires and no block is
\* finalized.
C24_NothingAfterStop ==
    /\ [](engine = "stopped" => (blockTimer = Null /\ pc = "idle" /\ ~isProcessing))
    /\ [][engine = "stopped" =>
             UNCHANGED <<engine, blockTimer, currentBlockNumber, currentSeedHex,
                         isProcessing, pc, blockToProcess, closeLog, processedAt,
                         balances, meta, blocks>>]_vars

\* stop() was called when the tick of block 2 was due: block 2 holds a share
\* and is not finalized.
C24_Witness ==
    /\ engine = "stopped"
    /\ currentBlockNumber = 2
    /\ elapsed >= BLOCK_TIME_MS
    /\ RowsOfBlock(shares, 2) # {}
    /\ 2 \notin processedAt

(***************************************************************************)
(* The reward computation of finalizeBlock on its own: from the rows       *)
(* getSharesForBlock returned and the value crypto.randomInt returned to   *)
(* the rewards map and the balances applyRewards leaves.  The rows are     *)
(* those of a block of a server whose MAX_SHARES_PB allows 23 shares per   *)
(* address; finalizeBlock does not read MAX_SHARES_PB.  selectWeightedRandom*)
(* and the Pool C step are also applied to inputs of their own: weights    *)
(* that may be zero, and three workers with given running rewards.         *)
(***************************************************************************)
RewardAddresses == <<AddrLowerA, AddrUpperA, AddrLowerB>>
ShareCounts == {0, 1, 2, 3, 9, 17, 23}
LotteryWeights == {0, 1, 3}
RunningRewards == {0, 3000000, 6000000, 45000000}

\* n rows of one address, as getSharesForBlock returns them.
RowsOf(address, n) ==
    [k \in 1..n |-> [block_number |-> 1, address |-> address, nonce |-> ToString(k),
                     hash_hex |-> Digest(0)]]

\* The rows of a block in which the i-th address holds counts[i] shares.
BlockRows(counts) ==
    RowsOf(RewardAddresses[1], counts[1]) \o RowsOf(RewardAddresses[2], counts[2])
    \o RowsOf(RewardAddresses[3], counts[3])

RandomInts(totalWeight) == IF totalWeight = 0 THEN {0} ELSE 0..(totalWeight - 1)

RewardCases ==
    {[kind |-> "block", weights |-> x[1], randomValue |-> x[2], running |-> <<>>] :
        x \in {y \in [1..3 -> ShareCounts] \X (0..(3 * 23)) :
                  SumSeq(y[1]) > 0 /\ y[2] < SumSeq(y[1])}}
    \cup {[kind |-> "lottery", weights |-> x[1], randomValue |-> x[2], running |-> <<>>] :
            x \in {y \in [1..3 -> LotteryWeights] \X (0..(3 * 3)) :
                      y[2] \in RandomInts(SumSeq(y[1]))}}
    \cup {[kind |-> "poolC", weights |-> <<>>, randomValue |-> 0, running |-> e] :
            e \in [1..3 -> RunningRewards]}

RewardInit ==
    /\ Boot
    /\ rewardCase \in RewardCases
    /\ rewardResult = NoRewardResult
    /\ MinerBoot
    /\ sizing = NoSizing

\* finalizeBlock from the grouping of the rows to applyRewards.
FinalizeRewards ==
    /\ rewardCase.kind = "block"
    /\ ~rewardResult.done
    /\ \E calc \in {ComputeRewards(BlockRows(rewardCase.weights), rewardCase.randomValue,
                                   config.POOL_C_REWARD_TOKENS)} :
          \E applied \in {applyRewards(balances, calc.rewards, "none")} :
              /\ balances' = applied.bal
              /\ rewardResult' = [NoRewardResult EXCEPT !.done = TRUE,
                                                        !.raised = applied.raised,
                                                        !.calc = calc,
                                                        !.winnerIndex = calc.winnerIndex]
    /\ UNCHANGED <<config, currentBlockNumber, currentSeedHex, isProcessing, elapsed,
                   blockTimer, engine, pc, blockToProcess, finalizeRaised, meta, blocks,
                   processedAt, shares, payouts, failures, shareLog, closeLog, debitLog,
                   rewardCase>>
    /\ UNCHANGED minerVars

\* selectWeightedRandom(weights) when crypto.randomInt returns randomValue.
LotteryDraw ==
    /\ rewardCase.kind = "lottery"
    /\ ~rewardResult.done
    /\ rewardResult' = [NoRewardResult EXCEPT
                           !.done = TRUE,
                           !.winnerIndex = selectWeightedRandom(rewardCase.weights,
                                                                rewardCase.randomValue)]
    /\ UNCHANGED <<config, currentBlockNumber, currentSeedHex, isProcessing, elapsed,
                   blockTimer, engine, pc, blockToProcess, finalizeRaised, meta, blocks,
                   processedAt, shares, balances, payouts, failures, shareLog, closeLog,
                   debitLog, rewardCase>>
    /\ UNCHANGED minerVars

\* The Pool C step of finalizeBlock for three addresses other than the winner
\* whose running rewards are rewardCase.running.
PoolCSpread ==
    /\ rewardCase.kind = "poolC"
    /\ ~rewardResult.done
    /\ rewardResult' = [NoRewardResult EXCEPT
                           !.done = TRUE,
                           !.poolC = PoolC(RewardAddresses,
                                           [a \in Range(RewardAddresses) |->
                                               rewardCase.running[Position(RewardAddresses, a)]],
                                           TimesMicro(config.POOL_C_REWARD_TOKENS))]
    /\ UNCHANGED <<config, currentBlockNumber, currentSeedHex, isProcessing, elapsed,
                   blockTimer, engine, pc, blockToProcess, finalizeRaised, meta, blocks,
                   processedAt, shares, balances, payouts, failures, shareLog, closeLog,
                   debitLog, rewardCase>>
    /\ UNCHANGED minerVars

RewardNext ==
    \/ FinalizeRewards
    \/ LotteryDraw
    \/ PoolCSpread

RewardSpec == RewardInit /\ [][RewardNext]_vars

\* The reward computation has run on a block / a lottery / a Pool C case.
BlockDone == rewardCase.kind = "block" /\ rewardResult.done
LotteryDone == rewardCase.kind = "lottery" /\ rewardResult.done
PoolCDone == rewardCase.kind = "poolC" /\ rewardResult.done

\* The shares the reward case gives to an address.
CaseCount(a) == rewardCase.weights[Position(RewardAddresses, a)]

\* C25: a finalization of a block with at least one share chooses exactly one
\* Pool B winner, an address with at least one share in the block; the
\* winner's reward is B_micro plus its Pool A share, and every other address
\* has nothing from Pool B.  selectWeightedRandom returns -1 exactly when the
\* weights sum to zero, and otherwise an index whose weight is positive.
C25_OnePoolBWinner ==
    /\ BlockDone =>
          LET calc == rewardResult.calc
              winner == calc.poolBWinner
          IN  /\ calc.winnerIndex \in 0..(Len(calc.addresses) - 1)
              /\ winner = calc.addresses[calc.winnerIndex + 1]
              /\ winner \in DOMAIN calc.sharesByAddress
              /\ calc.sharesByAddress[winner] >= 1
              /\ CaseCount(winner) = calc.sharesByAddress[winner]
              /\ calc.fromB[winner] = TimesMicro(POOL_B_REWARD_TOKENS)
              /\ calc.rewards[winner] = TimesMicro(POOL_B_REWARD_TOKENS) + calc.fromA[winner]
              /\ \A a \in DOMAIN calc.sharesByAddress : a # winner => calc.fromB[a] = 0
    /\ LotteryDone =>
          IF SumSeq(rewardCase.weights) = 0
          THEN rewardResult.winnerIndex = 0 - 1
          ELSE /\ rewardResult.winnerIndex \in 0..(Len(rewardCase.weights) - 1)
               /\ rewardCase.weights[rewardResult.winnerIndex + 1] > 0

\* A block with 9 shares of one address and 1 of another, in which the lottery
\* fell on the address with 1 share.
C25_Witness ==
    /\ BlockDone
    /\ rewardCase.weights = <<9, 1, 0>>
    /\ rewardCase.randomValue = 9
    /\ rewardResult.calc.poolBWinner = AddrUpperA
    /\ rewardResult.calc.fromB[AddrUpperA] = 50000000

Smaller(x, y) == IF x < y THEN x ELSE y
Larger(x, y) == IF x > y THEN x ELSE y

\* The total of the raw share counts of the reward case.
CaseTotal == SumSeq(rewardCase.weights)

PoolAShareExact(adjustedShare, totalAdjusted, poolAReward) ==
    adjustedShare * (poolAReward \div totalAdjusted)
    + (adjustedShare * (poolAReward % totalAdjusted)) \div totalAdjusted

\* C27: when totalAdjusted > 0 each Pool A participant receives exactly
\* floor(adjustedShare * A_micro / totalAdjusted), the Pool A payments sum to
\* at most A_micro and less than totalAdjusted micro-tokens stay undistributed;
\* when totalAdjusted = 0 nothing is paid from Pool A.
C27_PoolAExactFloor ==
    BlockDone =>
        LET calc == rewardResult.calc
            poolAReward == TimesMicro(POOL_A_REWARD_TOKENS)
            paid == SumSeq([i \in 1..Len(calc.addresses) |-> calc.fromA[calc.addresses[i]]])
        IN  IF calc.totalAdjustedShares > 0
            THEN /\ \A a \in DOMAIN calc.sharesByAddress :
                       calc.adjusted[a] > 0 =>
                           calc.fromA[a] = PoolAShareExact(calc.adjusted[a],
                                                           calc.totalAdjustedShares,
                                                           poolAReward)
                 /\ paid <= poolAReward
                 /\ poolAReward - paid < calc.totalAdjustedShares
            ELSE paid = 0

\* C_micro: the Pool C budget in micro-tokens; POOL_C_REWARD_TOKENS is
\* optional, and without it there is no budget.
C_micro ==
    IF config.POOL_C_REWARD_TOKENS = Undefined THEN 0
    ELSE config.POOL_C_REWARD_TOKENS * 1000000

\* The prefix rule on the running rewards E[1] <= ... <= E[n]: the first i in
\* 1..n-1 with E[i] + ceil(C_micro / i) < E[i+1], and n when there is none.
PrefixRuleM(E) ==
    LET breaks == {i \in 1..(Len(E) - 1) :
                      E[i] + ((C_micro + i - 1) \div i) < E[i + 1]}
    IN  IF breaks = {} THEN Len(E)
        ELSE CHOOSE i \in breaks : \A j \in breaks : i <= j

\* What the k-th lowest of the workers is due from Pool C when m are paid.
PoolCDue(k, m) ==
    IF k <= m
    THEN (C_micro \div m) + (IF k <= C_micro % m THEN 1 ELSE 0)
    ELSE 0

\* C28: Pool C never pays the Pool B winner; when there is an address other
\* than the winner, the workers are taken lowest running reward first, m is
\* the one the prefix rule selects (1 <= m <= numC), each of the m lowest
\* receives floor(C_micro / m), the first C_micro mod m of them one
\* micro-token more, and the payments sum to C_micro; when there is no
\* address other than the winner nothing is paid from Pool C.
C28_PoolCSpread ==
    BlockDone =>
        LET calc == rewardResult.calc
            winner == calc.poolBWinner
            workers == calc.workerRewards
            E == [k \in 1..Len(workers) |-> calc.fromA[workers[k]] + calc.fromB[workers[k]]]
        IN  /\ calc.fromC[winner] = 0
            /\ calc.numC = Cardinality(DOMAIN calc.sharesByAddress \ {winner})
            /\ calc.numC > 0 =>
                  /\ Range(workers) = DOMAIN calc.sharesByAddress \ {winner}
                  /\ Len(workers) = calc.numC
                  /\ \A k \in 1..(Len(workers) - 1) : E[k] <= E[k + 1]
                  /\ calc.m \in 1..calc.numC
                  /\ calc.m = PrefixRuleM(E)
                  /\ \A k \in 1..Len(workers) : calc.fromC[workers[k]] = PoolCDue(k, calc.m)
                  /\ SumSeq([k \in 1..Len(workers) |-> calc.fromC[workers[k]]]) = C_micro
            /\ calc.numC = 0 =>
                  \A a \in DOMAIN calc.sharesByAddress : calc.fromC[a] = 0

\* C29: with C_micro = 9 000 000 and three addresses other than the winner
\* whose running rewards after Pools A and B are 0, 0 and 6 000 000, the
\* Pool C step selects m = 3 and each of the three receives 3 000 000
\* micro-tokens, nothing remaining.
C29_PoolCScenario ==
    (/\ PoolCDone
     /\ config.POOL_C_REWARD_TOKENS = 9
     /\ rewardCase.running = <<0, 0, 6000000>>) =>
        /\ rewardResult.poolC.numC = 3
        /\ rewardResult.poolC.m = 3
        /\ \A a \in Range(RewardAddresses) : rewardResult.poolC.extra[a] = 3000000

\* The addresses that hold shares in the block of the reward case.
CaseHolders == {a \in Range(RewardAddresses) : CaseCount(a) > 0}

\* C30: when exactly one address holds shares in a block and it holds at
\* least 2, closing the block credits that address exactly A_micro + B_micro:
\* it wins Pool B, it is the only Pool A participant, with an adjusted share
\* of at least 1, and Pool C is skipped.
C30_SingleMinerTakesAAndB ==
    (BlockDone /\ Cardinality(CaseHolders) = 1) =>
        \A a \in CaseHolders :
            CaseCount(a) >= 2 =>
                LET calc == rewardResult.calc
                IN  /\ calc.poolBWinner = a
                    /\ calc.adjusted[a] >= 1
                    /\ calc.totalAdjustedShares = calc.adjusted[a]
                    /\ calc.numC = 0
                    /\ calc.fromC[a] = 0
                    /\ calc.rewards[a] = TimesMicro(POOL_A_REWARD_TOKENS)
                                         + TimesMicro(POOL_B_REWARD_TOKENS)
                    /\ ~rewardResult.raised
                    /\ balances[a] = ToNumber(TimesMicro(POOL_A_REWARD_TOKENS)
                                              + TimesMicro(POOL_B_REWARD_TOKENS))
                    /\ \A other \in DOMAIN balances : other # a => balances[other] = 0

\* A block with 3 shares of one address and none of any other has been closed
\* by a server without a Pool C budget.
C30_Witness ==
    /\ BlockDone
    /\ rewardCase.weights = <<3, 0, 0>>
    /\ config.POOL_C_REWARD_TOKENS = Undefined
    /\ rewardResult.calc.adjusted[AddrLowerA] = 1
    /\ balances[AddrLowerA] = ToNumber(100000000)

\* The rows of block b come from at least two accounts, so whichever address
\* wins Pool B there is an address that does not.
HasNonWinner(b) ==
    \E i, j \in RowsOfBlock(shares, b) : ~SameAccount(shares[i].address, shares[j].address)

\* C31: when POOL_C_REWARD_TOKENS is not configured, a finalization, met by no
\* storage failure, of a block with an address other than the winner completes
\* without error; Pool C contributes 0, every credited reward is a
\* non-negative integer, and the tick ends with the engine on the next block.
C31_UnconfiguredPoolC ==
    /\ [][(/\ config.POOL_C_REWARD_TOKENS = Undefined
           /\ ~isProcessing /\ isProcessing'
           /\ failures' = failures
           /\ HasNonWinner(currentBlockNumber))
          => /\ ~finalizeRaised'
             /\ CloseOf(currentBlockNumber)'.credits
                   = CloseOf(currentBlockNumber).credits + 1
             /\ currentBlockNumber \in processedAt'
             /\ \A a \in DOMAIN CloseOf(currentBlockNumber)'.calc.rewards :
                   /\ CloseOf(currentBlockNumber)'.calc.fromC[a] = 0
                   /\ CloseOf(currentBlockNumber)'.calc.rewards[a] >= 0
                   /\ balances'[a] = balances[a]
                         + ToNumber(CloseOf(currentBlockNumber)'.calc.rewards[a])]_vars
    /\ [][(/\ config.POOL_C_REWARD_TOKENS = Undefined
           /\ pc = "awaiting" /\ pc' = "idle"
           /\ failures' = failures
           /\ CloseOf(currentBlockNumber).raised = FALSE
           /\ HasNonWinner(currentBlockNumber))
          => currentBlockNumber' = currentBlockNumber + 1]_vars

\* C32: the rewards of a block are credited to balances at most once over any
\* sequence of ticks, also when a storage write raises after the block's
\* credits were committed: no tick credits a block that an earlier tick has
\* credited.
C32_CreditedAtMostOnce ==
    /\ \A b \in DOMAIN closeLog : closeLog[b].credits <= 1
    /\ [][\A b \in 1..MaxBlock :
             CloseOf(b).credits >= 1 => CloseOf(b)'.credits = CloseOf(b).credits]_vars

(***************************************************************************)
(* The server with two clients and storage failures, under the one         *)
(* guarantee a closure needs: a queued promise continuation runs.          *)
(***************************************************************************)
ClosingSubmitInputs == {<<AddrLowerA, "1">>, <<AddrLowerA, "2">>, <<AddrLowerB, "1">>}

TimerFiresOrFails ==
    \E randomValue \in 0..(MaxShares - 1), fault \in FinalizeFaults : Tick(randomValue, fault)

ContinuationRunsOrFails ==
    \E seed \in Seeds, fault \in ResumeFaults : ProcessBlockResume(seed, fault)

ClosingNext ==
    \/ Start
    \/ Stop
    \/ TimePasses
    \/ \E body \in ClosingSubmitInputs : SubmitProof(body[1], body[2], "none")
    \/ TimerFiresOrFails
    \/ ContinuationRunsOrFails

ClosingSpec ==
    /\ Init
    /\ [][ClosingNext]_vars
    /\ WF_vars(ContinuationRunsOrFails)

\* C33: the engine never stays in Closing.  Every tick that enters Closing,
\* whether its finalization returned or raised, is followed by a state in
\* which isProcessing is cleared and a next tick is scheduled; the step that
\* clears isProcessing schedules that tick with none pending before; and
\* after start() and until stop() a tick is pending whenever the engine is
\* Open.
C33_ClosingEnds ==
    /\ isProcessing ~> (~isProcessing /\ blockTimer # Null)
    /\ [][(isProcessing /\ ~isProcessing') => (blockTimer = Null /\ blockTimer' # Null)]_vars
    /\ []((engine = "started" /\ ~isProcessing) => blockTimer # Null)

\* The finalization of block 1 raised, the tick has ended, and the next tick
\* is pending with the engine still running.
C33_Witness ==
    /\ engine = "started"
    /\ CloseOf(1).raised
    /\ currentBlockNumber = 1
    /\ ~isProcessing
    /\ blockTimer # Null

\* C34: whenever the engine is Open (after boot and after every tick, also a
\* tick in which a storage call raised), the stored meta values
\* currentBlockNumber and currentSeedHex equal the engine's in-memory block
\* number and seed, and a blocks row with that number and seed exists.
C34_StorageMirrorsEngine ==
    ~isProcessing =>
        /\ meta.currentBlockNumber = currentBlockNumber
        /\ meta.currentSeedHex = currentSeedHex
        /\ [block_number |-> currentBlockNumber, seed_hex |-> currentSeedHex] \in blocks

(***************************************************************************)
(* The browser miner: MiningManager and its Workers.  Every method and     *)
(* every message handler runs to its end or to its next await; a posted    *)
(* message is dispatched later, in the order posted, per Worker.           *)
(***************************************************************************)
serverVars == <<config, currentBlockNumber, currentSeedHex, isProcessing, elapsed,
                blockTimer, engine, pc, blockToProcess, finalizeRaised, meta, blocks,
                processedAt, shares, balances, payouts, failures, shareLog, closeLog,
                debitLog, rewardCase, rewardResult>>

RemoveAt(q, k) == SubSeq(q, 1, k - 1) \o SubSeq(q, k + 1, Len(q))

\* worker.postMessage(message) for each entry of this.workers.
PostToEach(queues, workers, message) ==
    [w \in DOMAIN queues |->
        IF w \in Range(workers) THEN Append(queues[w], message) ELSE queues[w]]

\* stopMining(), as far as the queues go: nothing unless this.isRunning.
StopPosted(queues) ==
    IF manager.isRunning
    THEN PostToEach(queues, manager.workers, ToWorkerMessage("stop", NoChallenge, NoRate))
    ELSE queues

\* worker.terminate(): the script is aborted and its globals are gone; the
\* messages not yet dispatched in either direction are discarded.
Terminated == [NoWorker EXCEPT !.status = "terminated"]

\* new Worker("/mining-worker.js"): the script has not run yet.
Booting == [NoWorker EXCEPT !.status = "booting"]

\* startMining up to `await this.createWorkers(workerCount, perWorkerRate)`:
\* stopMining() when running, the sizing, destroyWorkers() and the new Workers.
startMining(challenge, totalHashRate) ==
    LET currentHashRate == TotalRate(totalHashRate)
        workerCount     == WorkerCount(currentHashRate)
        perWorkerRate   == PerWorkerRate(currentHashRate, workerCount)
        destroyed       == Range(manager.workers)
        created         == Cardinality({w \in 1..MaxWorkers : worker[w].status # "absent"})
        fresh           == (created + 1)..(created + workerCount)
        stopped         == StopPosted(toWorker)
    IN  /\ created + workerCount <= MaxWorkers
        /\ manager' = [isRunning |-> FALSE, currentHashRate |-> currentHashRate,
                       currentChallenge |-> challenge, workers |-> <<>>]
        /\ worker' = [w \in 1..MaxWorkers |->
                         IF w \in destroyed THEN Terminated
                         ELSE IF w \in fresh THEN Booting ELSE worker[w]]
        /\ toWorker' = [w \in 1..MaxWorkers |-> IF w \in destroyed THEN <<>> ELSE stopped[w]]
        /\ toManager' = [w \in 1..MaxWorkers |-> IF w \in destroyed THEN <<>> ELSE toManager[w]]
        /\ pending' = Append(pending, [challenge |-> challenge,
                                       perWorkerRate |-> perWorkerRate,
                                       waiting |-> fresh])

\* manager.startMining(challenge, totalHashRate)
StartMining(challenge, totalHashRate) ==
    /\ apiCalls < MaxCalls
    /\ startMining(challenge, totalHashRate)
    /\ apiCalls' = apiCalls + 1
    /\ stopCalled' = FALSE
    /\ UNCHANGED sizing
    /\ UNCHANGED serverVars

\* manager.stopMining()
StopMining ==
    /\ apiCalls < MaxCalls
    /\ toWorker' = StopPosted(toWorker)
    /\ manager' = [manager EXCEPT !.isRunning = FALSE]
    /\ apiCalls' = apiCalls + 1
    /\ stopCalled' = TRUE
    /\ UNCHANGED <<pending, worker, toManager, sizing>>
    /\ UNCHANGED serverVars

\* manager.updateHashRate(totalHashRate)
UpdateHashRate(totalHashRate) ==
    LET newTotal     == TotalRate(totalHashRate)
        desiredCount == DesiredCount(newTotal)
    IN  /\ apiCalls < MaxCalls
        /\ IF manager.isRunning /\ desiredCount = Len(manager.workers)
           THEN /\ toWorker' = PostToEach(toWorker, manager.workers,
                                          ToWorkerMessage("setHashRate", NoChallenge,
                                                          PerWorkerRate(newTotal, desiredCount)))
                /\ manager' = [manager EXCEPT !.currentHashRate = newTotal]
                /\ UNCHANGED <<pending, worker, toManager>>
           ELSE IF manager.isRunning /\ manager.currentChallenge # NoChallenge
           THEN startMining(manager.currentChallenge, newTotal)
           ELSE /\ toWorker' = StopPosted(toWorker)
                /\ manager' = [manager EXCEPT !.currentHashRate = newTotal,
                                              !.isRunning = FALSE]
                /\ UNCHANGED <<pending, worker, toManager>>
        /\ apiCalls' = apiCalls + 1
        /\ stopCalled' = FALSE
        /\ UNCHANGED sizing
        /\ UNCHANGED serverVars

\* manager.updateChallenge(challenge)
UpdateChallenge(challenge) ==
    /\ apiCalls < MaxCalls
    /\ manager' = [manager EXCEPT !.currentChallenge = challenge]
    /\ toWorker' = IF manager.isRunning
                   THEN PostToEach(toWorker, manager.workers,
                                   ToWorkerMessage("updateChallenge", challenge, NoRate))
                   ELSE toWorker
    /\ apiCalls' = apiCalls + 1
    /\ UNCHANGED <<pending, worker, toManager, stopCalled, sizing>>
    /\ UNCHANGED serverVars

\* The script of a new Worker runs to its end: self.postMessage({type: "ready"}).
WorkerReady(w) ==
    /\ worker[w].status = "booting"
    /\ worker' = [worker EXCEPT ![w].status = "running"]
    /\ toManager' = [toManager EXCEPT ![w] = Append(@, ReadyMessage)]
    /\ UNCHANGED <<manager, pending, toWorker, stopCalled, apiCalls, sizing>>
    /\ UNCHANGED serverVars

\* The manager's handlers of one message of Worker w: readyHandler, which
\* resolves the promise createWorkers awaits, and handleWorkerMessage, which
\* passes a "share" to onShareFound and an "error" to onError (callbacks of
\* the page).  With the last "ready" of a call, the rest of createWorkers and
\* of startMining run before any other message or method.
ManagerHandles(w) ==
    /\ toManager[w] # <<>>
    /\ toManager' = [toManager EXCEPT ![w] = Tail(@)]
    /\ LET message == Head(toManager[w])
       IN  IF message.type = "ready"
           THEN LET k       == CHOOSE k \in 1..Len(pending) : w \in pending[k].waiting
                    call    == pending[k]
                    workers == Append(manager.workers, w)
                    told    == [toWorker EXCEPT ![w] =
                                   Append(@, ToWorkerMessage("setHashRate", NoChallenge,
                                                             call.perWorkerRate))]
                IN  IF call.waiting = {w}
                    THEN /\ manager' = [manager EXCEPT !.workers = workers,
                                                       !.isRunning = TRUE]
                         /\ toWorker' = PostToEach(told, workers,
                                                   ToWorkerMessage("start", call.challenge,
                                                                   call.perWorkerRate))
                         /\ pending' = RemoveAt(pending, k)
                    ELSE /\ manager' = [manager EXCEPT !.workers = workers]
                         /\ toWorker' = told
                         /\ pending' = [pending EXCEPT ![k].waiting = @ \ {w}]
           ELSE UNCHANGED <<manager, toWorker, pending>>
    /\ UNCHANGED <<worker, stopCalled, apiCalls, sizing>>
    /\ UNCHANGED serverVars

\* One pass of the for loop of miningLoop up to `await computePoWHash(...)`:
\* the arguments are read from currentChallenge before the await.  The nonce
\* of generateNonce() is random and read by nothing but the hash until the
\* await returns, so it is drawn there (HashDone).
BeginIteration(currentChallenge, i, attemptsThisLoop) ==
    [at |-> "hashing", i |-> i, attemptsThisLoop |-> attemptsThisLoop,
     address |-> currentChallenge.address, blockNumber |-> currentChallenge.blockNumber,
     seedHex |-> currentChallenge.seedHex]

\* After setTimeout(miningLoop, remainingTime).
Sleeping ==
    [at |-> "sleeping", i |-> 0, attemptsThisLoop |-> 0, address |-> "",
     blockNumber |-> 0, seedHex |-> ""]

\* self.onmessage on Worker w; the handler of "start" calls miningLoop(),
\* which runs up to its first await.
WorkerHandles(w) ==
    LET me      == worker[w]
        message == Head(toWorker[w])
        known   == message.type \in {"start", "stop", "updateRate", "updateChallenge"}
    IN  /\ me.status = "running"
        /\ toWorker[w] # <<>>
        /\ known \/ Len(toManager[w]) < MaxQueue
        /\ toWorker' = [toWorker EXCEPT ![w] = Tail(@)]
        /\ worker' = [worker EXCEPT ![w] =
              CASE message.type = "start" ->
                       [me EXCEPT !.currentChallenge = message.challenge,
                                  !.hashRate = message.hashRate,
                                  !.isRunning = TRUE,
                                  !.loops = Append(@, BeginIteration(
                                                message.challenge, 0,
                                                AttemptsThisLoop(message.hashRate)))]
                [] message.type = "stop" ->
                       [me EXCEPT !.isRunning = FALSE, !.currentChallenge = NoChallenge]
                [] message.type = "updateRate" ->
                       [me EXCEPT !.hashRate = message.hashRate]
                [] message.type = "updateChallenge" ->
                       [me EXCEPT !.currentChallenge = message.challenge]
                [] OTHER -> me]
        /\ toManager' = IF known THEN toManager
                        ELSE [toManager EXCEPT ![w] =
                                 Append(@, ErrorMessage("Unknown message type"))]
        /\ UNCHANGED <<manager, pending, stopCalled, apiCalls, sizing>>
        /\ UNCHANGED serverVars

\* What the loop posts once the awaited hash is there: currentChallenge is
\* read again, and reading a field of null raises inside the try.
AfterHash(me, attempt, nonce) ==
    LET result == computePoWHash(attempt.address, attempt.blockNumber, attempt.seedHex,
                                 nonce)
    IN  IF me.currentChallenge = NoChallenge
        THEN <<ErrorMessage("Mining error")>>
        ELSE IF result.leadingZeroBits >= me.currentChallenge.difficultyBits
        THEN <<[NoShare EXCEPT !.type = "share",
                               !.address = me.currentChallenge.address,
                               !.blockNumber = me.currentChallenge.blockNumber,
                               !.nonce = nonce,
                               !.hash = result.hash,
                               !.leadingZeroBits = result.leadingZeroBits,
                               !.minedAddress = attempt.address,
                               !.minedBlockNumber = attempt.blockNumber]>>
        ELSE <<>>

\* The pass of the loop goes on after the await: lines 95-118, then either
\* the next pass up to its await or "stats" and setTimeout(miningLoop).
HashDone(w, k, nonce) ==
    LET me       == worker[w]
        attempt  == me.loops[k]
        posted   == AfterHash(me, attempt, nonce)
        goesOn   == attempt.i + 1 < attempt.attemptsThisLoop /\ me.isRunning
    IN  /\ me.status = "running"
        /\ k \in 1..Len(me.loops)
        /\ attempt.at = "hashing"
        /\ Len(toManager[w]) + Len(posted) <= MaxQueue
        /\ toManager' = [toManager EXCEPT ![w] = @ \o posted]
        /\ worker' = [worker EXCEPT ![w].loops[k] =
                         IF goesOn
                         THEN BeginIteration(me.currentChallenge, attempt.i + 1,
                                             attempt.attemptsThisLoop)
                         ELSE Sleeping]
        /\ UNCHANGED <<manager, pending, toWorker, stopCalled, apiCalls, sizing>>
        /\ UNCHANGED serverVars

\* The timer of setTimeout(miningLoop, remainingTime) fires: miningLoop()
\* returns at once when stopped, and starts its first pass otherwise.
LoopTimer(w, k) ==
    LET me     == worker[w]
        enters == me.isRunning /\ me.currentChallenge # NoChallenge
    IN  /\ me.status = "running"
        /\ k \in 1..Len(me.loops)
        /\ me.loops[k].at = "sleeping"
        /\ worker' = [worker EXCEPT ![w].loops =
                         IF enters
                         THEN [@ EXCEPT ![k] = BeginIteration(me.currentChallenge, 0,
                                                   AttemptsThisLoop(me.hashRate))]
                         ELSE RemoveAt(@, k)]
        /\ UNCHANGED <<manager, pending, toWorker, toManager, stopCalled,
                       apiCalls, sizing>>
        /\ UNCHANGED serverVars

MinerNext ==
    \/ \E challenge \in StartChallenges, totalHashRate \in StartRates :
          StartMining(challenge, totalHashRate)
    \/ StopMining
    \/ \E totalHashRate \in UpdateRates : UpdateHashRate(totalHashRate)
    \/ \E challenge \in NextChallenges : UpdateChallenge(challenge)
    \/ \E w \in 1..MaxWorkers : WorkerReady(w)
    \/ \E w \in 1..MaxWorkers : ManagerHandles(w)
    \/ \E w \in 1..MaxWorkers : WorkerHandles(w)
    \/ \E w \in 1..MaxWorkers, k \in 1..MaxCalls, nonce \in MinerNonces : HashDone(w, k, nonce)
    \/ \E w \in 1..MaxWorkers, k \in 1..MaxCalls : LoopTimer(w, k)

MinerInit == Init /\ config.POOL_C_REWARD_TOKENS = Undefined

MinerSpec == MinerInit /\ [][MinerNext]_vars

(***************************************************************************)
(* C35: every "share" message a mining Worker posts carries the address    *)
(* and the blockNumber of the challenge its hash was computed against,     *)
(* also when an updateChallenge, stop or start message is handled while    *)
(* the hash is awaited.                                                    *)
(***************************************************************************)
C35_ShareCarriesItsChallenge ==
    \A w \in 1..MaxWorkers : \A i \in 1..Len(toManager[w]) :
        toManager[w][i].type = "share"
        => /\ toManager[w][i].address = toManager[w][i].minedAddress
           /\ toManager[w][i].blockNumber = toManager[w][i].minedBlockNumber

(***************************************************************************)
(* C36: when updateHashRate is called while mining and the worker count    *)
(* stays the same, every Worker's hashing rate becomes the new per-worker  *)
(* rate: a mining Worker that handles the manager's rate message sets its  *)
(* hashRate to the rate of the message and posts no error message.         *)
(***************************************************************************)
RateMessageHandled(w) ==
    /\ worker[w].status = "running" /\ worker[w].isRunning
    /\ toWorker[w] # <<>>
    /\ Head(toWorker[w]).type = "setHashRate"
    /\ worker'[w].status = "running"
    /\ toWorker'[w] = Tail(toWorker[w])

C36_RateUpdateReachesWorker ==
    [][\A w \in 1..MaxWorkers :
          RateMessageHandled(w)
          => /\ worker'[w].hashRate = Head(toWorker[w]).hashRate
             /\ toManager'[w] = toManager[w]]_vars

(***************************************************************************)
(* The sizing of startMining on its own: from the requested total rate to  *)
(* the number of Workers createWorkers makes and the rate each is sent.    *)
(***************************************************************************)
MaxTotalRate == 1400

\* The values of the totalHashRate argument: a number from 0 to MaxTotalRate,
\* not a number, or left out.
SizingRates == {NaN, Undefined} \cup (0..MaxTotalRate)

SizingInit ==
    /\ Boot
    /\ rewardCase = NoRewardCase
    /\ rewardResult = NoRewardResult
    /\ MinerBoot
    /\ sizing \in {[NoSizing EXCEPT !.totalHashRate = t] : t \in SizingRates}

\* startMining, lines 172-188, and the count of createWorkers, line 45.
SizeWorkers ==
    /\ ~sizing.done
    /\ LET currentHashRate == TotalRate(sizing.totalHashRate)
           workerCount     == WorkerCount(currentHashRate)
       IN  sizing' = [sizing EXCEPT !.done = TRUE,
                                    !.workerCount = Max(1, workerCount),
                                    !.perWorkerRate = PerWorkerRate(currentHashRate,
                                                                    workerCount)]
    /\ UNCHANGED <<manager, pending, worker, toWorker, toManager, stopCalled, apiCalls>>
    /\ UNCHANGED serverVars

SizingNext == SizeWorkers

SizingSpec == SizingInit /\ [][SizingNext]_vars

(***************************************************************************)
(* C37: for every requested total hash rate, the per-worker rate that      *)
(* startMining sends is at most MAX_PER_WORKER_RATE and the number of      *)
(* Workers created is at most ABSOLUTE_MAX_WORKERS.                        *)
(***************************************************************************)
C37_WorkerSizingCapped ==
    sizing.done
    => /\ sizing.perWorkerRate.num <= MAX_PER_WORKER_RATE * sizing.perWorkerRate.den
       /\ sizing.workerCount <= ABSOLUTE_MAX_WORKERS

(***************************************************************************)
(* C38: after stopMining() with no later startMining or updateHashRate,    *)
(* the manager has isRunning = false and keeps it, and once the posted     *)
(* messages are handled no Worker goes on hashing; also when stopMining()  *)
(* is called while a startMining, or a restarting updateHashRate, still    *)
(* awaits the creation of its Workers.                                     *)
(***************************************************************************)
MessagesHandled ==
    /\ pending = <<>>
    /\ \A w \in 1..MaxWorkers : worker[w].status # "booting" /\ toWorker[w] = <<>>

C38_StopMiningStops ==
    stopCalled
    => /\ ~manager.isRunning
       /\ MessagesHandled
          => \A w \in 1..MaxWorkers : worker[w].status = "running" => ~worker[w].isRunning

====
